---- MODULE Spec2Model ----
(***************************************************************************)
(* A model of backend/utils/document_processor.py (class                   *)
(* DocumentProcessor): the chunker, the file-backed document/chunk store,  *)
(* the two caches, the inverted-index rebuild and the search pipeline.     *)
(*                                                                         *)
(* Text is a sequence of one-character strings.  The files of a directory *)
(* are a finite map from file name to record.  Every `with lock:` block of *)
(* the code is one atomic step, except the index rebuild, which holds      *)
(* index_lock over several steps and is modelled with an explicit owner.   *)
(***************************************************************************)
EXTENDS Integers, Sequences, FiniteSets, TLC

(***************************************************************************)
(* Bounds of the chunker specification.                                    *)
(***************************************************************************)
MaxLen == 5
MaxChunkSize == 3

Chars == {"a", ".", " ", "\n"}

\* characters matched by \s and by [.!?] within the alphabet
Whitespace == {" ", "\n"}
SentenceEnd == {".", "!", "?"}

Min(a, b) == IF a < b THEN a ELSE b

\* Python's s[a:b] for 0 <= a <= b <= len(s)
PySlice(s, a, b) == SubSeq(s, a + 1, b)

RECURSIVE Concat(_)
Concat(ss) == IF ss = <<>> THEN <<>> ELSE Head(ss) \o Concat(Tail(ss))

(***************************************************************************)
(* _chunk_text: the fixed-window chunker.                                  *)
(***************************************************************************)
\* mutant of NextStart: the window advances by chunk_size - overlap + 1
NextStartSkips(end, text_len, chunk_overlap) ==
    IF end < text_len THEN end - chunk_overlap + 1 ELSE text_len

\* mutant of NextStart: the window steps back one character more
NextStartStepsBack(end, text_len, chunk_overlap) ==
    IF end < text_len THEN end - chunk_overlap - 1 ELSE text_len

\* mutant of NextStart: the next window starts where the last one ended
NextStartNoOverlap(end, text_len, chunk_overlap) ==
    IF end < text_len THEN end ELSE text_len

\* start = end - chunk_overlap if end < text_len else text_len
NextStart(end, text_len, chunk_overlap) ==
    IF end < text_len THEN end - chunk_overlap ELSE text_len

RECURSIVE ChunkLoop(_, _, _, _, _)
ChunkLoop(text, chunk_size, chunk_overlap, start, chunks) ==
    IF start < Len(text)
    THEN LET end == Min(start + chunk_size, Len(text))
         IN  ChunkLoop(text, chunk_size, chunk_overlap,
                       NextStart(end, Len(text), chunk_overlap),
                       Append(chunks, PySlice(text, start, end)))
    ELSE chunks

\* mutant of IsSmallDocument: the small-document test is strict
IsSmallDocumentStrict(text, chunk_size) == Len(text) < chunk_size

\* if text_len <= chunk_size: return [text]
IsSmallDocument(text, chunk_size) == Len(text) <= chunk_size

ChunkText(text, chunk_size, chunk_overlap) ==
    IF text = <<>> THEN <<>>
    ELSE IF IsSmallDocument(text, chunk_size) THEN <<text>>
    ELSE ChunkLoop(text, chunk_size, chunk_overlap, 0, <<>>)

(***************************************************************************)
(* The two regular-expression splits of _smart_chunk_text.                 *)
(***************************************************************************)
\* the largest e >= i with text[i+1..e] all whitespace
RECURSIVE SpaceRunEnd(_, _)
SpaceRunEnd(text, i) ==
    IF i < Len(text) /\ text[i + 1] \in Whitespace
    THEN SpaceRunEnd(text, i + 1) ELSE i

\* the end of the match of \n\s*\n starting at i, or 0 when it does not match
ParaSepEnd(text, i) ==
    IF text[i] # "\n" THEN 0
    ELSE LET e == SpaceRunEnd(text, i)
             nl == {k \in (i + 1)..e : text[k] = "\n"}
         IN  IF nl = {} THEN 0 ELSE CHOOSE k \in nl : \A m \in nl : m <= k

\* re.split(r'\n\s*\n', text), scanning from i with the piece begun at s
RECURSIVE SplitParaFrom(_, _, _)
SplitParaFrom(text, s, i) ==
    IF i > Len(text) THEN <<SubSeq(text, s, Len(text))>>
    ELSE LET j == ParaSepEnd(text, i)
         IN  IF j = 0 THEN SplitParaFrom(text, s, i + 1)
             ELSE <<SubSeq(text, s, i - 1)>> \o SplitParaFrom(text, j + 1, j + 1)

SplitParagraphs(text) == SplitParaFrom(text, 1, 1)

\* re.split(r'(?<=[.!?])\s+', paragraph)
RECURSIVE SplitSentFrom(_, _, _)
SplitSentFrom(text, s, i) ==
    IF i > Len(text) THEN <<SubSeq(text, s, Len(text))>>
    ELSE IF i > 1 /\ text[i - 1] \in SentenceEnd /\ text[i] \in Whitespace
         THEN LET e == SpaceRunEnd(text, i)
              IN  <<SubSeq(text, s, i - 1)>> \o SplitSentFrom(text, e + 1, e + 1)
         ELSE SplitSentFrom(text, s, i + 1)

SplitSentences(paragraph) == SplitSentFrom(paragraph, 1, 1)

\* not paragraph.strip()
IsBlank(paragraph) == \A k \in 1..Len(paragraph) : paragraph[k] \in Whitespace

\* current_chunk[-chunk_overlap:] if len(current_chunk) > chunk_overlap
\* else current_chunk   (s[-0:] is the whole of s)
OverlapText(current_chunk, chunk_overlap) ==
    IF Len(current_chunk) > chunk_overlap /\ chunk_overlap > 0
    THEN SubSeq(current_chunk, Len(current_chunk) - chunk_overlap + 1,
                Len(current_chunk))
    ELSE current_chunk

\* (sep if current_chunk else "") + piece
JoinWith(current_chunk, sep, piece) ==
    IF current_chunk = <<>> THEN piece ELSE current_chunk \o sep \o piece

\* all but the last element: sentence_chunks[:-1]
ButLast(ss) == SubSeq(ss, 1, Len(ss) - 1)
Last(ss) == ss[Len(ss)]

(***************************************************************************)
(* _smart_chunk_text.  The two loops carry the pair (chunks, current).     *)
(***************************************************************************)
RECURSIVE SentenceLoop(_, _, _, _, _, _)
SentenceLoop(sentences, j, chunk_size, chunk_overlap, chunks, current) ==
    IF j > Len(sentences) THEN [chunks |-> chunks, current |-> current]
    ELSE LET sentence == sentences[j]
         IN  IF Len(current) + Len(sentence) > chunk_size
             THEN IF current # <<>>
                  THEN SentenceLoop(sentences, j + 1, chunk_size, chunk_overlap,
                           Append(chunks, current),
                           OverlapText(current, chunk_overlap) \o sentence)
                  ELSE IF Len(sentence) > chunk_size
                       THEN LET sc == ChunkText(sentence, chunk_size, chunk_overlap)
                            IN  SentenceLoop(sentences, j + 1, chunk_size,
                                    chunk_overlap, chunks \o ButLast(sc), Last(sc))
                       ELSE SentenceLoop(sentences, j + 1, chunk_size,
                                chunk_overlap, chunks, sentence)
             ELSE SentenceLoop(sentences, j + 1, chunk_size, chunk_overlap,
                      chunks, JoinWith(current, <<" ">>, sentence))

RECURSIVE ParagraphLoop(_, _, _, _, _, _)
ParagraphLoop(paragraphs, i, chunk_size, chunk_overlap, chunks, current) ==
    IF i > Len(paragraphs)
    THEN IF current # <<>> THEN Append(chunks, current) ELSE chunks
    ELSE LET paragraph == paragraphs[i]
         IN  IF IsBlank(paragraph)
             THEN ParagraphLoop(paragraphs, i + 1, chunk_size, chunk_overlap,
                      chunks, current)
             ELSE IF Len(current) + Len(paragraph) > chunk_size
             THEN IF current # <<>>
                  THEN IF Len(paragraph) > chunk_size
                       THEN LET r == SentenceLoop(SplitSentences(paragraph), 1,
                                         chunk_size, chunk_overlap,
                                         Append(chunks, current), <<>>)
                            IN  ParagraphLoop(paragraphs, i + 1, chunk_size,
                                    chunk_overlap, r.chunks, r.current)
                       ELSE ParagraphLoop(paragraphs, i + 1, chunk_size,
                                chunk_overlap, Append(chunks, current),
                                OverlapText(current, chunk_overlap) \o paragraph)
                  ELSE IF Len(paragraph) > chunk_size
                       THEN LET pc == ChunkText(paragraph, chunk_size, chunk_overlap)
                            IN  ParagraphLoop(paragraphs, i + 1, chunk_size,
                                    chunk_overlap, chunks \o ButLast(pc), Last(pc))
                       ELSE ParagraphLoop(paragraphs, i + 1, chunk_size,
                                chunk_overlap, chunks, paragraph)
             ELSE ParagraphLoop(paragraphs, i + 1, chunk_size, chunk_overlap,
                      chunks, JoinWith(current, <<"\n", "\n">>, paragraph))

SmartChunkText(text, chunk_size, chunk_overlap) ==
    IF text = <<>> THEN <<>>
    ELSE IF IsSmallDocument(text, chunk_size) THEN <<text>>
    ELSE ParagraphLoop(SplitParagraphs(text), 1, chunk_size, chunk_overlap,
                       <<>>, <<>>)

(***************************************************************************)
(* Documents handed to process_document.  The identifier of a document is  *)
(* the MD5 digest of its content alone: Md5 is injective on Contents and   *)
(* ignores the file name and the chunking parameters.                      *)
(***************************************************************************)
TextA == <<"A", "a", "a", " ", "b", "b", "b">>
TextE == << >>
Contents == {TextA, TextE}

\* a document of an earlier run: a stop word, a two-letter token and a term
TextS == <<"T", "h", "e", " ", "a", "b", " ", "c", "c", "c">>

Md5(content) ==
    CASE content = TextA -> "dA" [] content = TextE -> "dE"
      [] content = TextS -> "dS"

DocIds == {Md5(c) : c \in Contents}

\* the (chunk_size, chunk_overlap, smart_chunking) arguments of process_document
IngestParams ==
    { [chunk_size |-> 4, chunk_overlap |-> 1, smart_chunking |-> FALSE],
      [chunk_size |-> 8, chunk_overlap |-> 0, smart_chunking |-> TRUE] }

\* the constructor's cache_size and cache_ttl, and index_refresh_interval
CacheSize == 1
CacheTtl == 0
RefreshInterval == 1

\* the clock: time.time() reads `now`, which starts at StartTime
StartTime == 1
MaxTime == 2

\* the number of calls the callers make in one behaviour
MaxCalls == 2

\* the largest top_k handed to search_documents
MaxTopK == 2

(***************************************************************************)
(* Finite maps (Python dicts whose order does not matter).                 *)
(***************************************************************************)
EmptyMap == << >>
MapPut(f, k, v) == [x \in (DOMAIN f) \cup {k} |-> IF x = k THEN v ELSE f[x]]
MapDel(f, k) == [x \in (DOMAIN f) \ {k} |-> f[x]]

(***************************************************************************)
(* Tokenization: content.lower(), re.findall(r'\w+'), then the length and  *)
(* stop-word filter.                                                       *)
(***************************************************************************)
StopWords == {
    <<"t","h","e">>, <<"a","n","d">>, <<"f","o","r">>,
    <<"a","r","e">>, <<"b","u","t">>, <<"n","o","t">>,
    <<"y","o","u">>, <<"a","l","l">>, <<"a","n","y">>,
    <<"c","a","n">>, <<"h","a","d">>, <<"h","e","r">>,
    <<"w","a","s">>, <<"o","n","e">>, <<"o","u","r">>,
    <<"o","u","t">>, <<"d","a","y">>, <<"g","e","t">>,
    <<"h","a","s">>, <<"h","i","m">>, <<"h","i","s">>,
    <<"h","o","w">>, <<"m","a","n">>, <<"n","e","w">>,
    <<"n","o","w">>, <<"o","l","d">>, <<"s","e","e">>,
    <<"t","w","o">>, <<"w","a","y">>, <<"w","h","o">>,
    <<"d","i","d">>, <<"i","t","s">>, <<"l","e","t">>,
    <<"s","a","y">>, <<"s","h","e">>, <<"t","o","o">>,
    <<"u","s","e">>, <<"t","h","a","t">>, <<"w","i","t","h">>,
    <<"f","r","o","m">>, <<"t","h","i","s">>, <<"w","h","a","t">>,
    <<"w","h","e","n">>, <<"h","a","v","e">>, <<"t","h","e","y">>,
    <<"w","i","l","l">>, <<"b","e","e","n">>, <<"m","u","c","h">>,
    <<"s","o","m","e">>, <<"t","h","e","n">>, <<"t","h","a","n">>,
    <<"v","e","r","y">>, <<"j","u","s","t">>, <<"i","n","t","o">>,
    <<"l","i","k","e">>, <<"m","o","r","e">>, <<"o","v","e","r">>,
    <<"o","n","l","y">>, <<"s","u","c","h">>, <<"t","a","k","e">>,
    <<"t","i","m","e">>, <<"u","p","o","n">>, <<"w","e","l","l">>,
    <<"w","e","r","e">>, <<"y","o","u","r">>
}

NonWordChars == {" ", "\n", ".", "!", "?"}
IsWordChar(c) == c \notin NonWordChars

LowerChar(c) ==
    CASE c = "A" -> "a" [] c = "B" -> "b" [] c = "T" -> "t" [] OTHER -> c
Lower(s) == [i \in 1..Len(s) |-> LowerChar(s[i])]

RECURSIVE WordsFrom(_, _, _)
WordsFrom(s, i, cur) ==
    IF i > Len(s) THEN (IF cur = <<>> THEN <<>> ELSE <<cur>>)
    ELSE IF IsWordChar(s[i]) THEN WordsFrom(s, i + 1, Append(cur, s[i]))
    ELSE (IF cur = <<>> THEN <<>> ELSE <<cur>>) \o WordsFrom(s, i + 1, <<>>)

\* re.findall(r'\w+', s)
FindWords(s) == WordsFrom(s, 1, <<>>)

\* mutant of IsIndexTerm: short words are kept
IsIndexTermAnyLength(word) == word \notin StopWords

\* len(word) >= 3 and word not in self.stop_words
IsIndexTerm(word) == Len(word) >= 3 /\ word \notin StopWords

CountWord(words, w) == Cardinality({i \in 1..Len(words) : words[i] = w})

(***************************************************************************)
(* Files.  A chunk file <doc_id>_<n>.json is keyed by the pair             *)
(* <<doc_id, n>>; the prefix test and chunk_id.split('_')[0] take the      *)
(* first component (a digest holds no underscore).                         *)
(***************************************************************************)
ChunkDocId(chunk_id) == chunk_id[1]
ChunkNum(chunk_id) == chunk_id[2]

\* _save_chunk's record
ChunkData(doc_id, n, content, start_char) ==
    [doc_id |-> doc_id, chunk_id |-> n, content |-> content,
     start_char |-> start_char, end_char |-> start_char + Len(content)]

\* the start_char argument of process_document
StartChar(i, chunk_size, chunk_overlap) ==
    IF i > 0 THEN i * (chunk_size - chunk_overlap) ELSE 0

\* process_document's metadata record (the time stamps are left out)
Metadata(doc_id, content, p, chunks) ==
    [doc_id |-> doc_id, chunk_size |-> p.chunk_size,
     chunk_overlap |-> p.chunk_overlap, smart_chunking |-> p.smart_chunking,
     total_chunks |-> Len(chunks), total_chars |-> Len(content)]

\* the chunker process_document selects
Chunker(content, p) ==
    IF p.smart_chunking
    THEN SmartChunkText(content, p.chunk_size, p.chunk_overlap)
    ELSE ChunkText(content, p.chunk_size, p.chunk_overlap)

\* a file json.load raises on, and one that holds a JSON array
Truncated == [malformed |-> "truncated"]
JsonArray == [malformed |-> "array"]

\* json.load(f) returns
Parses(file) == file # Truncated

\* the loaded value is a dict, so that .get is defined on it
IsObject(value) == "malformed" \notin DOMAIN value

\* the files of the chunks directory whose name starts with <doc_id>_
ChunkFilesOf(files, doc_id) == {k \in DOMAIN files : ChunkDocId(k) = doc_id}

\* the orders in which the pool tasks of a set of loads can complete
RECURSIVE Orders(_)
Orders(S) ==
    IF S = {} THEN {<<>>}
    ELSE UNION {{Append(o, x) : o \in Orders(S \ {x})} : x \in S}

\* one of those orders
InOrder(S) == CHOOSE o \in Orders(S) : TRUE

\* mutant of SortByChunkId: the records stay in completion order
Unsorted(chunks) == chunks

\* chunks.sort(key=lambda x: x.get("chunk_id", 0)): a stable sort
RECURSIVE InsertByChunkId(_, _)
InsertByChunkId(sorted, e) ==
    IF sorted = <<>> THEN <<e>>
    ELSE IF Last(sorted).chunk_id <= e.chunk_id THEN Append(sorted, e)
    ELSE Append(InsertByChunkId(ButLast(sorted), e), Last(sorted))

RECURSIVE SortByChunkId(_)
SortByChunkId(chunks) ==
    IF chunks = <<>> THEN <<>>
    ELSE InsertByChunkId(SortByChunkId(ButLast(chunks)), Last(chunks))

(***************************************************************************)
(* The caches: dicts in insertion order, as sequences of entries.          *)
(***************************************************************************)
CacheKeys(cache) == {cache[i].key : i \in DOMAIN cache}
CacheHas(cache, k) == k \in CacheKeys(cache)
CacheIdx(cache, k) == CHOOSE i \in DOMAIN cache : cache[i].key = k
CacheGet(cache, k) == cache[CacheIdx(cache, k)].val

\* cache[k] = (v, t): an existing key keeps its place
CachePut(cache, k, v, t) ==
    IF CacheHas(cache, k)
    THEN [cache EXCEPT ![CacheIdx(cache, k)] = [key |-> k, val |-> v, ts |-> t]]
    ELSE Append(cache, [key |-> k, val |-> v, ts |-> t])

CacheDel(cache, k) ==
    LET Keep(e) == e.key # k IN SelectSeq(cache, Keep)

\* the entries with now - timestamp > cache_ttl are deleted
Expire(cache, t, ttl) ==
    LET Fresh(e) == ~(t - e.ts > ttl) IN SelectSeq(cache, Fresh)

\* sorted(items, key=timestamp): a stable sort
RECURSIVE InsertByTs(_, _)
InsertByTs(sorted, e) ==
    IF sorted = <<>> THEN <<e>>
    ELSE IF Last(sorted).ts <= e.ts THEN Append(sorted, e)
    ELSE Append(InsertByTs(ButLast(sorted), e), Last(sorted))

RECURSIVE SortByTs(_)
SortByTs(cache) ==
    IF cache = <<>> THEN <<>>
    ELSE InsertByTs(SortByTs(ButLast(cache)), Last(cache))

\* mutant of OldestBeyond: sorted_items[cache_size:], the newest entries
NewestBeyond(sorted, size) == SubSeq(sorted, size + 1, Len(sorted))

\* sorted_items[:-cache_size]
OldestBeyond(sorted, cache_size) ==
    IF cache_size = 0 THEN <<>>
    ELSE SubSeq(sorted, 1, Len(sorted) - cache_size)

EvictOldest(cache, size) ==
    IF Len(cache) > size
    THEN LET gone == CacheKeys(OldestBeyond(SortByTs(cache), size))
             Keep(e) == e.key \notin gone
         IN  SelectSeq(cache, Keep)
    ELSE cache

\* history: the entries EvictOldest drops from a cache
Dropped(cache, size) ==
    LET kept == EvictOldest(cache, size)
    IN  {cache[i] : i \in {j \in DOMAIN cache : cache[j].key \notin CacheKeys(kept)}}

\* _cache_cleanup on one cache
Cleanup(cache, t, ttl, size) == EvictOldest(Expire(cache, t, ttl), size)

(***************************************************************************)
(* Index building.  Scores are fixed-point numbers in millionths:          *)
(* LnMicro(n, df) is np.log(n / df + 1) in millionths, and the term        *)
(* frequency count / total_words is kept as the pair (count, total).  The  *)
(* logarithms are rounded to multiples of 72, so that the divisions by the *)
(* word counts and term counts of the model leave no remainder and two     *)
(* scores are equal in the model when they are equal in the code.          *)
(***************************************************************************)
LnTable ==
    << <<0, 0, 0, 0, 0>>,
       <<693144, 405432, 287712, 223128, 182304>>,
       <<1098648, 693144, 510840, 405432, 336456>>,
       <<1386288, 916272, 693144, 559584, 470016>>,
       <<1609416, 1098648, 847296, 693144, 587808>> >>

\* mutant of LnMicro: np.log(total_documents / doc_frequencies[term]), which
\* is zero for a term that every document has
LnMicroUnsmoothed(n, df) == IF n = df THEN 0 ELSE LnTable[n + 1][df]

\* idf = np.log(total_documents / doc_frequencies[term] + 1)
LnMicro(n, df) == LnTable[n + 1][df]

\* score = tf * idf
Score(count, total, n, df) == (count * LnMicro(n, df)) \div total

\* the term frequencies _process_chunk_for_index returns for a chunk record
TermFreqs(content) ==
    LET words == FindWords(Lower(content))
        terms == {words[i] : i \in {j \in 1..Len(words) : IsIndexTerm(words[j])}}
    IN  [t \in terms |-> [count |-> CountWord(words, t), total |-> Len(words)]]

\* doc_term_counts[doc_id]: the terms of the chunks of one document
DocTerms(chunk_terms, doc_id) ==
    UNION {DOMAIN chunk_terms[c] :
              c \in {k \in DOMAIN chunk_terms : ChunkDocId(k) = doc_id}}

AllTerms(chunk_terms) == UNION {DOMAIN chunk_terms[c] : c \in DOMAIN chunk_terms}

\* the frequencies counted per chunk instead of per document
ChunkFrequencies(chunk_terms) ==
    [t \in AllTerms(chunk_terms) |->
        Cardinality({c \in DOMAIN chunk_terms : t \in DOMAIN chunk_terms[c]})]

\* doc_frequencies after the loop over doc_term_counts
DocFrequencies(chunk_terms) ==
    LET docs == {ChunkDocId(c) : c \in DOMAIN chunk_terms}
    IN  [t \in AllTerms(chunk_terms) |->
            Cardinality({d \in docs : t \in DocTerms(chunk_terms, d)})]

\* an index that lists each term under one of its chunks only
BuildIndexOneChunk(chunk_terms, n, df) ==
    [t \in AllTerms(chunk_terms) |->
        [c \in {CHOOSE k \in DOMAIN chunk_terms : t \in DOMAIN chunk_terms[k]} |->
            Score(chunk_terms[c][t].count, chunk_terms[c][t].total, n, df[t])]]

\* inverted_index after the scoring loop
BuildIndex(chunk_terms, n, df) ==
    [t \in AllTerms(chunk_terms) |->
        [c \in {k \in DOMAIN chunk_terms : t \in DOMAIN chunk_terms[k]} |->
            Score(chunk_terms[c][t].count, chunk_terms[c][t].total, n, df[t])]]

(***************************************************************************)
(* Query processing and scoring.                                           *)
(***************************************************************************)
\* str.count: the non-overlapping occurrences of word in s from position i
RECURSIVE CountFrom(_, _, _)
CountFrom(s, word, i) ==
    IF i + Len(word) - 1 > Len(s) THEN 0
    ELSE IF SubSeq(s, i, i + Len(word) - 1) = word
         THEN 1 + CountFrom(s, word, i + Len(word))
         ELSE CountFrom(s, word, i + 1)

\* _process_query: {term: weight}, the weight 1 + count / len(words) kept
\* as the fraction num / den
ProcessQuery(query) ==
    LET q == Lower(query)
        words == FindWords(q)
        terms == {words[i] : i \in {j \in 1..Len(words) : IsIndexTerm(words[j])}}
    IN  [t \in terms |->
            [num |-> Len(words) + CountFrom(q, t, 1), den |-> Len(words)]]

\* `if doc_ids:` then the chunk's document must be in doc_ids
AllowedBy(doc_ids, chunk_id) ==
    (doc_ids.given /\ doc_ids.ids # {}) => ChunkDocId(chunk_id) \in doc_ids.ids

\* the query terms under which the index lists the chunk
Matches(index, query_terms, c) ==
    {t \in DOMAIN query_terms : t \in DOMAIN index /\ c \in DOMAIN index[t]}

RECURSIVE SumOver(_, _, _, _)
SumOver(index, query_terms, c, ts) ==
    IF ts = {} THEN 0
    ELSE LET t == CHOOSE x \in ts : TRUE
         IN  (index[t][c] * query_terms[t].num) \div query_terms[t].den
             + SumOver(index, query_terms, c, ts \ {t})

\* chunk_scores and chunk_matches when the scoring loop ends: for each
\* candidate the accumulated score and the number of query terms it matches
Accumulated(index, query_terms, doc_ids) ==
    LET cands == {c \in UNION {DOMAIN index[t] :
                                  t \in DOMAIN query_terms \cap DOMAIN index} :
                     AllowedBy(doc_ids, c)}
    IN  [c \in cands |->
            LET m == Matches(index, query_terms, c)
            IN  [sum |-> SumOver(index, query_terms, c, m),
                 matched |-> Cardinality(m)]]

\* mutant of Boost: the score is divided by the coverage factor
BoostInverted(sum, matched, n) == (sum * n) \div (n + matched)

\* chunk_scores[chunk_id] *= (1.0 + match_percentage), where
\* match_percentage = len(chunk_matches[chunk_id]) / len(query_terms)
Boost(sum, matched, n) == (sum * (n + matched)) \div n

\* chunk_scores after the coverage boost
ChunkScores(index, query_terms, doc_ids) ==
    LET acc == Accumulated(index, query_terms, doc_ids)
    IN  [c \in DOMAIN acc |->
            Boost(acc[c].sum, acc[c].matched, Cardinality(DOMAIN query_terms))]

\* the candidates with score >= min_score
Qualified(scores, min_score) == {c \in DOMAIN scores : scores[c] >= min_score}

\* mutant of TopChoices: any top_k of the qualified candidates
TopChoicesUnranked(scores, min_score, top_k) ==
    LET q == Qualified(scores, min_score)
    IN  {top \in SUBSET q : Cardinality(top) = Min(top_k, Cardinality(q))}

\* the sets sorted_chunks[:top_k] can be: ties are in dict order, which the
\* completion order of the rebuild's pool tasks decides
TopChoices(scores, min_score, top_k) ==
    LET q == Qualified(scores, min_score)
    IN  {top \in SUBSET q :
            /\ Cardinality(top) = Min(top_k, Cardinality(q))
            /\ \A a \in top, b \in q \ top : scores[a] >= scores[b]}

\* results.sort(key=score, reverse=True): a stable sort
RECURSIVE InsertByScore(_, _)
InsertByScore(sorted, e) ==
    IF sorted = <<>> THEN <<e>>
    ELSE IF Last(sorted).score >= e.score THEN Append(sorted, e)
    ELSE Append(InsertByScore(ButLast(sorted), e), Last(sorted))

RECURSIVE SortByScore(_)
SortByScore(results) ==
    IF results = <<>> THEN <<>>
    ELSE InsertByScore(SortByScore(ButLast(results)), Last(results))

\* the arguments of search_documents; min_score is in millionths
Queries == {<<"b", "b", "b">>, <<"t", "h", "e">>}
SearchArgs ==
    [query : Queries, top_k : {1}, min_score : {0},
     doc_ids : {[given |-> FALSE, ids |-> {}]}]

(***************************************************************************)
(* The chunker specification: the inputs are drawn by Init, the two        *)
(* actions apply the two chunkers.                                         *)
(***************************************************************************)
VARIABLES
    ck_text,      \* the text handed to the chunker
    ck_size,      \* chunk_size
    ck_overlap,   \* chunk_overlap
    ck_mode,      \* "none", then "fixed" or "smart" once a chunker has run
    ck_chunks,    \* the list the chunker returned
    ck_start      \* the start position of _chunk_text's while loop

ckvars == <<ck_text, ck_size, ck_overlap, ck_mode, ck_chunks, ck_start>>

(***************************************************************************)
(* The state of a DocumentProcessor and of the threads that use it.        *)
(***************************************************************************)
VARIABLES
    now,                 \* the value time.time() returns
    metadata_files,      \* metadata_dir: doc_id -> metadata record
    chunk_files,         \* chunks_dir: <<doc_id, n>> -> chunk record
    stats_file,          \* stats.json as _save_document_stats last wrote it
    metadata_cache,      \* self.metadata_cache
    chunks_cache,        \* self.chunks_cache
    cache_size,          \* self.cache_size
    cache_ttl,           \* self.cache_ttl
    inverted_index,      \* self.inverted_index: term -> chunk -> score
    doc_frequencies,     \* self.doc_frequencies
    total_documents,     \* self.total_documents
    index_last_refresh,  \* self.index_last_refresh
    index_lock,          \* the thread inside `with self.index_lock`, or "free"
    pc,                  \* where each caller thread stands
    loc,                 \* the locals of each caller's call
    ret,                 \* what each caller's last call returned
    calls,               \* the number of calls made so far
    rpc,                 \* where each _refresh_inverted_index thread stands
    rloc,                \* the locals of each refresh thread
    published,           \* history: the index the last completed rebuild or
                         \*   clear_cache left
    del_state,           \* history, per document: "deleted" once a
                         \*   delete_document call for it has run to its end,
                         \*   "rebuilt" once a rebuild has completed after that
    reingested,          \* history: the documents with a process_document
                         \*   call during or after their last delete
    evicted,             \* history: the entries the last _cache_cleanup
                         \*   dropped from each cache for its size
    rebuilt_at,          \* history: the time at which the last rebuild
                         \*   completed; 0 if none has, or if a
                         \*   process_document, delete_document or
                         \*   clear_cache call has run since it did; -1
                         \*   while a rebuild runs that such a call overlaps
    invalidated          \* history: process_document or delete_document
                         \*   has reset index_last_refresh and no rebuild
                         \*   has started since

storeVars == <<metadata_files, chunk_files>>
cacheVars == <<metadata_cache, chunks_cache>>
configVars == <<cache_size, cache_ttl>>
indexVars == <<inverted_index, doc_frequencies, total_documents, stats_file,
               index_lock>>
refreshVars == <<rpc, rloc>>
histVars == <<published, del_state, reingested>>
clientVars == <<pc, loc, ret, calls>>
procVars == <<now, storeVars, cacheVars, configVars, indexVars,
              index_last_refresh, clientVars, refreshVars, histVars, evicted,
              rebuilt_at, invalidated>>

vars == <<ckvars, procVars>>

Clients == {"c1", "c2"}
Refreshers == {"r1"}

NoCall == [op |-> "none", pending |-> {}]
NoRefresh ==
    [now |-> 0, pending |-> {}, chunk_terms |-> EmptyMap, behind |-> FALSE]
NotFound == [found |-> FALSE]

\* a data directory as process_document(content, p) and the rebuild after it
\* leave it
StoreOf(content, p) ==
    LET d == Md5(content)
        chunks == Chunker(content, p)
        files == [k \in {<<d, i>> : i \in 0..(Len(chunks) - 1)} |->
                     ChunkData(d, k[2], chunks[k[2] + 1],
                               StartChar(k[2], p.chunk_size, p.chunk_overlap))]
        terms == [k \in DOMAIN files |-> TermFreqs(files[k].content)]
    IN  [metadata |-> MapPut(EmptyMap, d, Metadata(d, content, p, chunks)),
         chunks |-> files,
         stats |-> [doc_frequencies |-> DocFrequencies(terms),
                    total_documents |-> 1]]

EmptyStore ==
    [metadata |-> EmptyMap, chunks |-> EmptyMap,
     stats |-> [doc_frequencies |-> EmptyMap, total_documents |-> 0]]

\* the data directories the constructor is run on: a new one, and one that
\* an earlier run left with TextA ingested in fixed-size chunks
Stores ==
    {EmptyStore,
     StoreOf(TextA, [chunk_size |-> 4, chunk_overlap |-> 1,
                     smart_chunking |-> FALSE])}

\* the state right after __init__: the statistics are loaded from
\* stats.json, the caches and the index are empty, and the constructor has
\* started one refresh thread
NoneEvicted == [metadata_cache |-> {}, chunks_cache |-> {}]

\* the data directory the constructor finds, and the statistics it loads
InitFiles(stores) ==
    \E s \in stores :
        /\ metadata_files = s.metadata
        /\ chunk_files = s.chunks
        /\ stats_file = s.stats
        /\ doc_frequencies = s.stats.doc_frequencies
        /\ total_documents = s.stats.total_documents

\* the empty index, and callers that have made no call yet
InitCallers(docs) ==
    /\ inverted_index = EmptyMap
    /\ index_last_refresh = 0
    /\ index_lock = "free"
    /\ pc = [c \in Clients |-> "idle"]
    /\ loc = [c \in Clients |-> NoCall]
    /\ ret = [c \in Clients |-> NoCall]
    /\ calls = 0
    /\ published = EmptyMap
    /\ del_state = [d \in docs |-> "none"]
    /\ reingested = {}
    /\ rebuilt_at = 0
    /\ invalidated = FALSE

\* the refresh thread the constructor starts; the other threads of the pool
\* are started by later calls
InitRefreshers(pool) ==
    /\ rpc = [r \in pool |-> IF r = "r1" THEN "spawned" ELSE "idle"]
    /\ rloc = [r \in pool |-> NoRefresh]

InitThreads(docs) == InitCallers(docs) /\ InitRefreshers(Refreshers)

InitStore(stores) ==
    /\ now = StartTime
    /\ InitFiles(stores)
    /\ metadata_cache = <<>>
    /\ chunks_cache = <<>>
    /\ cache_size = CacheSize
    /\ cache_ttl = CacheTtl
    /\ evicted = NoneEvicted

InitOn(stores) == InitStore(stores) /\ InitThreads(DocIds)

InitProcessor == InitOn(Stores)

\* the chunker specification leaves the processor alone
ChunkerIdle ==
    /\ ck_text = <<>>
    /\ ck_size = 1
    /\ ck_overlap = 0
    /\ ck_mode = "none"
    /\ ck_chunks = <<>>
    /\ ck_start = 0

Texts == UNION {[1..n -> Chars] : n \in 0..MaxLen}

InitChunk ==
    /\ ck_text \in Texts
    /\ ck_size \in 1..MaxChunkSize
    /\ ck_overlap \in 0..(ck_size - 1)
    /\ ck_mode = "none"
    /\ ck_chunks = <<>>
    /\ ck_start = 0
    /\ InitProcessor

RunChunkText ==
    /\ ck_mode = "none"
    /\ ck_chunks' = ChunkText(ck_text, ck_size, ck_overlap)
    /\ ck_mode' = "fixed"
    /\ UNCHANGED <<ck_text, ck_size, ck_overlap, ck_start, procVars>>

RunSmartChunkText ==
    /\ ck_mode = "none"
    /\ ck_chunks' = SmartChunkText(ck_text, ck_size, ck_overlap)
    /\ ck_mode' = "smart"
    /\ UNCHANGED <<ck_text, ck_size, ck_overlap, ck_start, procVars>>

NextChunk == RunChunkText \/ RunSmartChunkText

SpecChunk == InitChunk /\ [][NextChunk]_vars

(***************************************************************************)
(* The loop specification: _chunk_text run statement by statement, one     *)
(* step for each pass of its while loop.                                   *)
(***************************************************************************)
\* the passes the model lets the loop make
MaxIterations == MaxLen + 1

InitLoop ==
    /\ ck_text \in Texts
    /\ ck_size \in 1..MaxChunkSize
    /\ ck_overlap \in 0..(ck_size - 1)
    /\ ck_mode = "none"
    /\ ck_chunks = <<>>
    /\ ck_start = 0
    /\ InitOn({EmptyStore})

\* if not text: return []; if text_len <= chunk_size: return [text];
\* chunks = []; start = 0
ChunkTextEnter ==
    /\ ck_mode = "none"
    /\ IF ck_text = <<>>
       THEN ck_mode' = "fixed" /\ ck_chunks' = <<>>
       ELSE IF IsSmallDocument(ck_text, ck_size)
       THEN ck_mode' = "fixed" /\ ck_chunks' = <<ck_text>>
       ELSE ck_mode' = "loop" /\ ck_chunks' = <<>>
    /\ ck_start' = 0
    /\ UNCHANGED <<ck_text, ck_size, ck_overlap, procVars>>

\* one pass of `while start < text_len`
ChunkTextPass ==
    /\ ck_mode = "loop"
    /\ ck_start < Len(ck_text)
    /\ Len(ck_chunks) < MaxIterations
    /\ LET end == Min(ck_start + ck_size, Len(ck_text))
       IN  /\ ck_chunks' = Append(ck_chunks, PySlice(ck_text, ck_start, end))
           /\ ck_start' = NextStart(end, Len(ck_text), ck_overlap)
    /\ UNCHANGED <<ck_text, ck_size, ck_overlap, ck_mode, procVars>>

\* the loop test fails; return chunks
ChunkTextReturn ==
    /\ ck_mode = "loop"
    /\ ~(ck_start < Len(ck_text))
    /\ ck_mode' = "fixed"
    /\ UNCHANGED <<ck_text, ck_size, ck_overlap, ck_chunks, ck_start, procVars>>

NextLoop == ChunkTextEnter \/ ChunkTextPass \/ ChunkTextReturn

\* a call that has started goes on running
SpecLoop == InitLoop /\ [][NextLoop]_vars /\ WF_vars(NextLoop)

(***************************************************************************)
(* Threads.                                                                *)
(***************************************************************************)
Goto(c, label) == pc' = [pc EXCEPT ![c] = label]

\* a caller that is not inside a call makes its next call
Call(c, label) ==
    /\ pc[c] = "idle"
    /\ calls < MaxCalls
    /\ calls' = calls + 1
    /\ pc' = [pc EXCEPT ![c] = label]
    /\ ret' = [ret EXCEPT ![c] = NoCall]

Return(c, value) ==
    /\ pc' = [pc EXCEPT ![c] = "idle"]
    /\ loc' = [loc EXCEPT ![c] = NoCall]
    /\ ret' = [ret EXCEPT ![c] = value]

\* threading.Thread(target=self._refresh_inverted_index).start(): the model
\* holds at most Cardinality(DOMAIN rpc) refresh threads at a time
CanSpawn == \E r \in DOMAIN rpc : rpc[r] = "idle"

\* no thread is started
SpawnNothing == rpc' = rpc

Spawn ==
    LET r == CHOOSE x \in DOMAIN rpc : rpc[x] = "idle"
    IN  rpc' = [rpc EXCEPT ![r] = "spawned"]

\* the refresh threads between the rate-limit check and the write of
\* index_last_refresh
Rebuilding == {r \in DOMAIN rpc : rpc[r] \in {"chunks", "read"}}

\* history: what a starting process_document, delete_document or
\* clear_cache call leaves in rebuilt_at
Disturbed == IF Rebuilding # {} THEN -1 ELSE 0

\* the callers inside a call that resets index_last_refresh
Mutating ==
    {c \in Clients :
        loc[c].op \in {"process_document", "delete_document", "clear_cache"}}

Ingesting(d) ==
    {c \in Clients : loc[c].op = "process_document" /\ loc[c].doc_id = d}
Deleting(d) ==
    {c \in Clients : loc[c].op = "delete_document" /\ loc[c].doc_id = d}

\* _save_document_stats
SavedStats(df, n) == [doc_frequencies |-> df, total_documents |-> n]

Tick ==
    /\ now < MaxTime
    /\ now' = now + 1
    /\ UNCHANGED <<ckvars, configVars, rebuilt_at, invalidated, evicted,
                   storeVars, cacheVars, indexVars, index_last_refresh,
                   clientVars, refreshVars, histVars>>

(***************************************************************************)
(* _refresh_inverted_index, run by a thread of its own.                    *)
(***************************************************************************)
\* now = time.time(); history: whether another thread was rebuilding when
\* this one arrived
RefreshStart(r) ==
    /\ rpc[r] = "spawned"
    /\ rpc' = [rpc EXCEPT ![r] = "lock"]
    /\ rloc' = [rloc EXCEPT ![r] = [NoRefresh EXCEPT !.now = now,
                                                     !.behind = Rebuilding # {}]]
    /\ UNCHANGED <<ckvars, configVars, rebuilt_at, invalidated, evicted, now,
                   storeVars, cacheVars, indexVars,
                   index_last_refresh, clientVars, histVars>>

\* the rate limit with the boundary included: a request exactly one interval
\* after the recorded time would still be suppressed
RateLimitedInclusive(t, last_refresh) == t - last_refresh <= RefreshInterval

\* the rate limit of line 113
RateLimited(t, last_refresh) == t - last_refresh < RefreshInterval

\* history: a search that has not read the index yet when a rebuild takes
\* the lock runs concurrently with that rebuild
NoteRebuild(call, label) ==
    IF call.op = "search_documents" /\ label = "s_score"
    THEN [call EXCEPT !.overlapped = TRUE] ELSE call

\* the rebuild entered with no regard to the lock
RefreshIgnoresIndexLock == TRUE

\* with self.index_lock: the thread blocks until no thread holds the lock
RefreshTakesIndexLock == index_lock = "free"

\* with self.index_lock: the rate-limit test; then the index and the
\* statistics are cleared and the metadata directory is listed.  Nothing
\* but the holder of the lock reads what lines 120-122 clear, so the step
\* runs on to the first read of the store.
RefreshAcquire(r) ==
    /\ rpc[r] = "lock"
    /\ RefreshTakesIndexLock
    /\ IF RateLimited(rloc[r].now, index_last_refresh)
       THEN /\ rpc' = [rpc EXCEPT ![r] = "idle"]
            /\ rloc' = [rloc EXCEPT ![r] = NoRefresh]
            /\ UNCHANGED <<indexVars, loc, invalidated, rebuilt_at>>
       ELSE /\ rpc' = [rpc EXCEPT ![r] = "chunks"]
            /\ invalidated' = FALSE
            /\ rebuilt_at' = IF Mutating # {} THEN -1 ELSE 0
            /\ index_lock' = r
            /\ inverted_index' = EmptyMap
            /\ doc_frequencies' = EmptyMap
            /\ total_documents' = Cardinality(DOMAIN metadata_files)
            /\ loc' = [c \in Clients |-> NoteRebuild(loc[c], pc[c])]
            /\ UNCHANGED <<rloc, stats_file>>
    /\ UNCHANGED <<ckvars, configVars, evicted, now, storeVars,
                   cacheVars, index_last_refresh,
                   pc, ret, calls, histVars>>

\* chunk_files = os.listdir(self.chunks_dir)
RefreshListChunks(r) ==
    /\ rpc[r] = "chunks"
    /\ rloc' = [rloc EXCEPT ![r].pending = DOMAIN chunk_files]
    /\ rpc' = [rpc EXCEPT ![r] = "read"]
    /\ UNCHANGED <<ckvars, configVars, rebuilt_at, invalidated, evicted, now,
                   storeVars, cacheVars, indexVars,
                   index_last_refresh, clientVars, histVars>>

\* one pool task: _process_chunk_for_index on one listed file.  A file that
\* is gone, or that json.load or chunk.get raises on, or a chunk without
\* terms, adds nothing to chunk_terms.
RefreshProcessChunk(r, k) ==
    /\ rpc[r] = "read"
    /\ k \in rloc[r].pending
    /\ LET tf == IF k \in DOMAIN chunk_files /\ IsObject(chunk_files[k])
                 THEN TermFreqs(chunk_files[k].content) ELSE EmptyMap
           id == IF k \in DOMAIN chunk_files /\ IsObject(chunk_files[k])
                 THEN <<chunk_files[k].doc_id, chunk_files[k].chunk_id>> ELSE k
       IN  rloc' = [rloc EXCEPT
                      ![r].pending = @ \ {k},
                      ![r].chunk_terms =
                          IF tf = EmptyMap THEN @ ELSE MapPut(@, id, tf)]
    /\ UNCHANGED <<ckvars, configVars, rebuilt_at, invalidated, evicted, now,
                   storeVars, cacheVars, indexVars,
                   index_last_refresh, clientVars, rpc, histVars>>

\* the document frequencies, the scoring pass, _save_document_stats and
\* self.index_last_refresh = now; then the lock is released
RefreshFinish(r) ==
    /\ rpc[r] = "read"
    /\ rloc[r].pending = {}
    /\ LET df == DocFrequencies(rloc[r].chunk_terms)
           index == BuildIndex(rloc[r].chunk_terms, total_documents, df)
       IN  /\ doc_frequencies' = df
           /\ inverted_index' = index
           /\ stats_file' = SavedStats(df, total_documents)
           /\ published' = index
    /\ index_last_refresh' = rloc[r].now
    /\ index_lock' = "free"
    /\ rpc' = [rpc EXCEPT ![r] = "idle"]
    /\ rloc' = [rloc EXCEPT ![r] = NoRefresh]
    /\ del_state' = [d \in DocIds |->
                        IF del_state[d] = "deleted" THEN "rebuilt"
                        ELSE del_state[d]]
    /\ rebuilt_at' = IF Mutating = {} /\ rebuilt_at # -1 THEN now ELSE 0
    /\ UNCHANGED <<ckvars, configVars, invalidated, evicted, now, storeVars,
                   cacheVars, total_documents,
                   clientVars, reingested>>

Refresh(r) ==
    \/ RefreshStart(r)
    \/ RefreshAcquire(r)
    \/ RefreshListChunks(r)
    \/ \E k \in rloc[r].pending : RefreshProcessChunk(r, k)
    \/ RefreshFinish(r)

(***************************************************************************)
(* process_document                                                        *)
(***************************************************************************)
\* history: a call in flight when an ingestion of d starts no longer counts
\* as one made after the deletion of d
NoteIngest(call, d) ==
    CASE call.op = "delete_document" /\ call.doc_id = d ->
             [call EXCEPT !.overlap_ingest = TRUE]
      [] call.op \in {"get_document_metadata", "get_chunks"}
            /\ call.doc_id = d ->
             [call EXCEPT !.after_delete = FALSE]
      [] call.op = "search_documents" ->
             [call EXCEPT !.gone_alone = @ \ {d}, !.deleted_alone = @ \ {d}]
      [] OTHER -> call

\* the call, the document id, the metadata record and the chunker
PdStart(c, content, p) ==
    /\ Call(c, "pd_save")
    /\ LET d == Md5(content)
           chunks == Chunker(content, p)
           call == [op |-> "process_document", doc_id |-> d, params |-> p,
                    chunks |-> chunks, pending |-> 0..(Len(chunks) - 1),
                    failed |-> {},
                    metadata |-> Metadata(d, content, p, chunks)]
       IN  /\ loc' = [x \in Clients |->
                        IF x = c THEN call ELSE NoteIngest(loc[x], d)]
           /\ reingested' = reingested \cup {d}
    /\ rebuilt_at' = Disturbed
    /\ UNCHANGED <<ckvars, configVars, invalidated, evicted, now, storeVars,
                   cacheVars, indexVars,
                   index_last_refresh, refreshVars, published, del_state>>

\* one pool task: _save_chunk writes <doc_id>_<i>.json
PdSaveChunk(c, i) ==
    /\ pc[c] = "pd_save"
    /\ i \in loc[c].pending
    /\ LET d == loc[c].doc_id
           p == loc[c].params
       IN  chunk_files' =
               MapPut(chunk_files, <<d, i>>,
                      ChunkData(d, i, loc[c].chunks[i + 1],
                                StartChar(i, p.chunk_size, p.chunk_overlap)))
    /\ loc' = [loc EXCEPT ![c].pending = @ \ {i}]
    /\ UNCHANGED <<ckvars, configVars, rebuilt_at, invalidated, evicted, now,
                   metadata_files, cacheVars, indexVars,
                   index_last_refresh, pc, ret, calls, refreshVars, histVars>>

\* one pool task whose write raises: future.result() re-raises it, and the
\* except clause of lines 317-318 logs it and goes on to the next task
PdSaveChunkFails(c, i) ==
    /\ pc[c] = "pd_save"
    /\ i \in loc[c].pending
    /\ loc' = [loc EXCEPT ![c].pending = @ \ {i}, ![c].failed = @ \cup {i}]
    /\ UNCHANGED <<ckvars, configVars, rebuilt_at, invalidated, evicted, now,
                   storeVars, cacheVars, indexVars, index_last_refresh, pc,
                   ret, calls, refreshVars, histVars>>

\* json.dump(metadata, f)
PdSaveMetadata(c) ==
    /\ pc[c] = "pd_save"
    /\ loc[c].pending = {}
    /\ metadata_files' = MapPut(metadata_files, loc[c].doc_id, loc[c].metadata)
    /\ Goto(c, "pd_cache")
    /\ UNCHANGED <<ckvars, configVars, rebuilt_at, invalidated, evicted, now,
                   chunk_files, cacheVars, indexVars,
                   index_last_refresh, loc, ret, calls, refreshVars, histVars>>

\* with self.cache_lock: self.metadata_cache[doc_id] = (metadata, time.time())
PdCachePut(c) ==
    /\ pc[c] = "pd_cache"
    /\ metadata_cache' =
           CachePut(metadata_cache, loc[c].doc_id, loc[c].metadata, now)
    /\ Goto(c, "pd_count")
    /\ UNCHANGED <<ckvars, configVars, rebuilt_at, invalidated, evicted, now,
                   storeVars, chunks_cache, indexVars,
                   index_last_refresh, loc, ret, calls, refreshVars, histVars>>

\* with self.index_lock: self.total_documents += 1; _save_document_stats()
PdCount(c) ==
    /\ pc[c] = "pd_count"
    /\ index_lock = "free"
    /\ total_documents' = total_documents + 1
    /\ stats_file' = SavedStats(doc_frequencies, total_documents + 1)
    /\ Goto(c, "pd_inval")
    /\ UNCHANGED <<ckvars, configVars, rebuilt_at, invalidated, evicted, now,
                   storeVars, cacheVars, inverted_index,
                   doc_frequencies, index_lock, index_last_refresh, loc, ret,
                   calls, refreshVars, histVars>>

\* self.index_last_refresh = 0 (line 341), outside any lock
PdInvalidate(c) ==
    /\ pc[c] = "pd_inval"
    /\ index_last_refresh' = 0
    /\ invalidated' = TRUE
    /\ Goto(c, "pd_spawn")
    /\ UNCHANGED <<ckvars, configVars, rebuilt_at, evicted, now, storeVars,
                   cacheVars, indexVars, loc, ret,
                   calls, refreshVars, histVars>>

\* the refresh thread is started and the document id returned
PdSpawn(c) ==
    /\ pc[c] = "pd_spawn"
    /\ CanSpawn
    /\ Spawn
    /\ Return(c, [op |-> "process_document", doc_id |-> loc[c].doc_id,
                  val |-> loc[c].doc_id, chunks |-> loc[c].chunks,
                  failed |-> loc[c].failed])
    /\ UNCHANGED <<ckvars, configVars, rebuilt_at, invalidated, evicted, now,
                   storeVars, cacheVars, indexVars,
                   index_last_refresh, calls, rloc, histVars>>

ProcessDocument(c) ==
    \/ \E content \in Contents, p \in IngestParams : PdStart(c, content, p)
    \/ \E i \in loc[c].pending : PdSaveChunk(c, i)
    \/ PdSaveMetadata(c)
    \/ PdCachePut(c)
    \/ PdCount(c)
    \/ PdInvalidate(c)
    \/ PdSpawn(c)

(***************************************************************************)
(* _cache_cleanup, get_document_metadata and get_chunks                    *)
(***************************************************************************)
\* history: the call starts after a delete_document(d) has returned, with
\* no ingestion of d during or since that delete
AfterDelete(d) == del_state[d] # "none" /\ d \notin reingested

\* self._cache_cleanup()
CacheCleanup ==
    /\ metadata_cache' = Cleanup(metadata_cache, now, cache_ttl, cache_size)
    /\ chunks_cache' = Cleanup(chunks_cache, now, cache_ttl, cache_size)
    /\ evicted' = [metadata_cache |->
                       Dropped(Expire(metadata_cache, now, cache_ttl), cache_size),
                   chunks_cache |->
                       Dropped(Expire(chunks_cache, now, cache_ttl), cache_size)]

GmStart(c, d) ==
    /\ Call(c, "gm_check")
    /\ CacheCleanup
    /\ loc' = [loc EXCEPT ![c] =
                  [op |-> "get_document_metadata", doc_id |-> d, pending |-> {},
                   after_delete |-> AfterDelete(d), metadata |-> NotFound]]
    /\ UNCHANGED <<ckvars, configVars, rebuilt_at, invalidated, now,
                   storeVars, indexVars, index_last_refresh,
                   refreshVars, histVars>>

GmResult(c, value) ==
    [op |-> "get_document_metadata", doc_id |-> loc[c].doc_id, val |-> value,
     after_delete |-> loc[c].after_delete]

\* with self.cache_lock: a hit refreshes the timestamp and returns
GmCheck(c) ==
    /\ pc[c] = "gm_check"
    /\ LET d == loc[c].doc_id
       IN  IF CacheHas(metadata_cache, d)
           THEN /\ metadata_cache' =
                       CachePut(metadata_cache, d, CacheGet(metadata_cache, d), now)
                /\ Return(c, GmResult(c, CacheGet(metadata_cache, d)))
           ELSE /\ Goto(c, "gm_read")
                /\ UNCHANGED <<metadata_cache, loc, ret>>
    /\ UNCHANGED <<ckvars, configVars, rebuilt_at, invalidated, evicted, now,
                   storeVars, chunks_cache, indexVars,
                   index_last_refresh, calls, refreshVars, histVars>>

\* os.path.exists, then the file is read; a file that is gone is None
GmRead(c) ==
    /\ pc[c] = "gm_read"
    /\ LET d == loc[c].doc_id
       IN  IF d \in DOMAIN metadata_files
           THEN /\ loc' = [loc EXCEPT ![c].metadata = metadata_files[d]]
                /\ Goto(c, "gm_put")
                /\ UNCHANGED ret
           ELSE Return(c, GmResult(c, NotFound))
    /\ UNCHANGED <<ckvars, configVars, rebuilt_at, invalidated, evicted, now,
                   storeVars, cacheVars, indexVars,
                   index_last_refresh, calls, refreshVars, histVars>>

\* with self.cache_lock: self.metadata_cache[doc_id] = (metadata, time.time())
GmPut(c) ==
    /\ pc[c] = "gm_put"
    /\ metadata_cache' =
           CachePut(metadata_cache, loc[c].doc_id, loc[c].metadata, now)
    /\ Return(c, GmResult(c, loc[c].metadata))
    /\ UNCHANGED <<ckvars, configVars, rebuilt_at, invalidated, evicted, now,
                   storeVars, chunks_cache, indexVars,
                   index_last_refresh, calls, refreshVars, histVars>>

GetDocumentMetadata(c) ==
    \/ \E d \in DocIds : GmStart(c, d)
    \/ GmCheck(c)
    \/ GmRead(c)
    \/ GmPut(c)

GcStart(c, d) ==
    /\ Call(c, "gc_check")
    /\ CacheCleanup
    /\ loc' = [loc EXCEPT ![c] =
                  [op |-> "get_chunks", doc_id |-> d, pending |-> {},
                   after_delete |-> AfterDelete(d), loaded |-> <<>>]]
    /\ UNCHANGED <<ckvars, configVars, rebuilt_at, invalidated, now,
                   storeVars, indexVars, index_last_refresh,
                   refreshVars, histVars>>

\* history: whether the value came from the cache, and the order in which
\* the loads completed
GcResult(c, value, served) ==
    [op |-> "get_chunks", doc_id |-> loc[c].doc_id, val |-> value,
     after_delete |-> loc[c].after_delete, served |-> served,
     completed |-> loc[c].loaded]

\* with self.cache_lock: a hit refreshes the timestamp and returns
GcCheck(c) ==
    /\ pc[c] = "gc_check"
    /\ LET d == loc[c].doc_id
       IN  IF CacheHas(chunks_cache, d)
           THEN /\ chunks_cache' =
                       CachePut(chunks_cache, d, CacheGet(chunks_cache, d), now)
                /\ Return(c, GcResult(c, CacheGet(chunks_cache, d), "cache"))
           ELSE /\ Goto(c, "gc_list")
                /\ UNCHANGED <<chunks_cache, loc, ret>>
    /\ UNCHANGED <<ckvars, configVars, rebuilt_at, invalidated, evicted, now,
                   storeVars, metadata_cache, indexVars,
                   index_last_refresh, calls, refreshVars, histVars>>

\* chunk_files = [f for f in os.listdir(...) if f.startswith(chunk_prefix)]
GcList(c) ==
    /\ pc[c] = "gc_list"
    /\ loc' = [loc EXCEPT ![c].pending = ChunkFilesOf(chunk_files, loc[c].doc_id)]
    /\ Goto(c, "gc_load")
    /\ UNCHANGED <<ckvars, configVars, rebuilt_at, invalidated, evicted, now,
                   storeVars, cacheVars, indexVars,
                   index_last_refresh, ret, calls, refreshVars, histVars>>

\* one pool task: _load_chunk_file; a file that is gone loads as None
GcLoad(c, k) ==
    /\ pc[c] = "gc_load"
    /\ k \in loc[c].pending
    /\ loc' = [loc EXCEPT
                 ![c].pending = @ \ {k},
                 ![c].loaded = IF k \in DOMAIN chunk_files
                               THEN Append(@, chunk_files[k]) ELSE @]
    /\ UNCHANGED <<ckvars, configVars, rebuilt_at, invalidated, evicted, now,
                   storeVars, cacheVars, indexVars,
                   index_last_refresh, pc, ret, calls, refreshVars, histVars>>

\* chunks.sort(...); with self.cache_lock: self.chunks_cache[doc_id] = ...
GcPut(c) ==
    /\ pc[c] = "gc_load"
    /\ loc[c].pending = {}
    /\ LET chunks == SortByChunkId(loc[c].loaded)
       IN  /\ chunks_cache' = CachePut(chunks_cache, loc[c].doc_id, chunks, now)
           /\ Return(c, GcResult(c, chunks, "store"))
    /\ UNCHANGED <<ckvars, configVars, rebuilt_at, invalidated, evicted, now,
                   storeVars, metadata_cache, indexVars,
                   index_last_refresh, calls, refreshVars, histVars>>

GetChunks(c) ==
    \/ \E d \in DocIds : GcStart(c, d)
    \/ GcCheck(c)
    \/ GcList(c)
    \/ \E k \in loc[c].pending : GcLoad(c, k)
    \/ GcPut(c)

(***************************************************************************)
(* list_documents (the sequential branch, for at most 10 metadata files)   *)
(***************************************************************************)
\* x.get("created_at", 0)
CreatedAt(x) == IF "created_at" \in DOMAIN x THEN x.created_at ELSE 0

\* documents.sort(key=..., reverse=True): a stable sort, newest first
RECURSIVE InsertByCreatedAt(_, _)
InsertByCreatedAt(sorted, e) ==
    IF sorted = <<>> THEN <<e>>
    ELSE IF CreatedAt(Last(sorted)) >= CreatedAt(e) THEN Append(sorted, e)
    ELSE Append(InsertByCreatedAt(ButLast(sorted), e), Last(sorted))

RECURSIVE SortByCreatedAt(_)
SortByCreatedAt(documents) ==
    IF documents = <<>> THEN <<>>
    ELSE InsertByCreatedAt(SortByCreatedAt(ButLast(documents)), Last(documents))

\* metadata_files = os.listdir(self.metadata_dir), in the order it gives
LdStart(c) ==
    /\ Call(c, "ld_load")
    /\ \E files \in Orders(DOMAIN metadata_files) :
           loc' = [loc EXCEPT ![c] =
                      [op |-> "list_documents", pending |-> {},
                       files |-> files, documents |-> <<>>]]
    /\ UNCHANGED <<ckvars, configVars, rebuilt_at, invalidated, evicted, now,
                   storeVars, cacheVars, indexVars, index_last_refresh,
                   refreshVars, histVars>>

\* get_document_metadata on the next listed file: _cache_cleanup, the cache
\* look-up, and on a miss the read; a file that is gone or that json.load
\* raises on gives None, any other loaded value is cached and kept
LdLoad(c) ==
    /\ pc[c] = "ld_load"
    /\ loc[c].files # <<>>
    /\ chunks_cache' = Cleanup(chunks_cache, now, cache_ttl, cache_size)
    /\ evicted' = [metadata_cache |->
                       Dropped(Expire(metadata_cache, now, cache_ttl), cache_size),
                   chunks_cache |->
                       Dropped(Expire(chunks_cache, now, cache_ttl), cache_size)]
    /\ LET d == Head(loc[c].files)
           cache == Cleanup(metadata_cache, now, cache_ttl, cache_size)
           found == IF CacheHas(cache, d) THEN <<CacheGet(cache, d)>>
                    ELSE IF d \in DOMAIN metadata_files /\ Parses(metadata_files[d])
                    THEN <<metadata_files[d]>>
                    ELSE <<>>
       IN  /\ metadata_cache' =
                  IF found = <<>> THEN cache ELSE CachePut(cache, d, found[1], now)
           /\ loc' = [loc EXCEPT ![c].files = Tail(@),
                                 ![c].documents = @ \o found]
    /\ UNCHANGED <<ckvars, configVars, rebuilt_at, invalidated, now, storeVars,
                   indexVars, index_last_refresh, pc, ret, calls, refreshVars,
                   histVars>>

\* the sort and the return; the key function raises on a value that is no
\* dict, and the outer except clause returns []
LdReturn(c) ==
    /\ pc[c] = "ld_load"
    /\ loc[c].files = <<>>
    /\ Return(c, [op |-> "list_documents",
                  val |-> IF \A i \in DOMAIN loc[c].documents :
                                 IsObject(loc[c].documents[i])
                          THEN SortByCreatedAt(loc[c].documents)
                          ELSE <<>>])
    /\ UNCHANGED <<ckvars, configVars, rebuilt_at, invalidated, evicted, now,
                   storeVars, cacheVars, indexVars, index_last_refresh, calls,
                   refreshVars, histVars>>

ListDocuments(c) == LdStart(c) \/ LdLoad(c) \/ LdReturn(c)

(***************************************************************************)
(* delete_document                                                         *)
(***************************************************************************)
\* history: another delete of d in flight is noted on both calls
NoteDelete(call, d) ==
    IF call.op = "delete_document" /\ call.doc_id = d
    THEN [call EXCEPT !.overlap_delete = TRUE] ELSE call

\* os.path.exists(metadata_path)
DelStart(c, d) ==
    /\ Call(c, IF d \in DOMAIN metadata_files THEN "del_meta" ELSE "del_list")
    /\ loc' = [x \in Clients |->
                 IF x = c
                 THEN [op |-> "delete_document", doc_id |-> d, pending |-> {},
                       deleted_chunks |-> 0, removed_metadata |-> FALSE,
                       overlap_ingest |-> Ingesting(d) # {},
                       overlap_delete |-> Deleting(d) # {}]
                 ELSE NoteDelete(loc[x], d)]
    /\ rebuilt_at' = Disturbed
    /\ UNCHANGED <<ckvars, configVars, invalidated, evicted, now, storeVars,
                   cacheVars, indexVars,
                   index_last_refresh, refreshVars, histVars>>

\* what the call returned, whether it removed any record, and whether it
\* ran with no other call for the document in progress
DelResult(c, value) ==
    [op |-> "delete_document", doc_id |-> loc[c].doc_id, val |-> value,
     removed |-> loc[c].removed_metadata \/ loc[c].deleted_chunks > 0,
     alone |-> ~loc[c].overlap_ingest /\ ~loc[c].overlap_delete]

\* except Exception: return False; the rest of the call is skipped
DelFail(c) ==
    /\ Return(c, DelResult(c, FALSE))
    /\ UNCHANGED <<del_state, reingested>>

\* the call runs to its end: the result, and the history of the deletion
DelReturn(c, value) ==
    LET d == loc[c].doc_id
    IN  /\ Return(c, DelResult(c, value))
        /\ del_state' = [del_state EXCEPT ![d] = "deleted"]
        /\ reingested' = IF loc[c].overlap_ingest
                         THEN reingested \cup {d} ELSE reingested \ {d}

\* os.remove(metadata_path); a file that is gone by now raises, and the
\* except clause returns False
DelRemoveMetadata(c) ==
    /\ pc[c] = "del_meta"
    /\ LET d == loc[c].doc_id
       IN  IF d \in DOMAIN metadata_files
           THEN /\ metadata_files' = MapDel(metadata_files, d)
                /\ loc' = [loc EXCEPT ![c].removed_metadata = TRUE]
                /\ Goto(c, "del_list")
                /\ UNCHANGED <<ret, del_state, reingested>>
           ELSE /\ DelFail(c)
                /\ UNCHANGED metadata_files
    /\ UNCHANGED <<ckvars, configVars, rebuilt_at, invalidated, evicted, now,
                   chunk_files, cacheVars, indexVars,
                   index_last_refresh, calls, refreshVars, published>>

\* mutant of DeleteListing: the prefix matches no file
DeleteListingNone(files, doc_id) == {}

\* the files of os.listdir(self.chunks_dir) that start with chunk_prefix
DeleteListing(files, doc_id) == ChunkFilesOf(files, doc_id)

DelList(c) ==
    /\ pc[c] = "del_list"
    /\ loc' = [loc EXCEPT ![c].pending = DeleteListing(chunk_files, loc[c].doc_id)]
    /\ Goto(c, "del_chunks")
    /\ UNCHANGED <<ckvars, configVars, rebuilt_at, invalidated, evicted, now,
                   storeVars, cacheVars, indexVars,
                   index_last_refresh, ret, calls, refreshVars, histVars>>

\* os.remove(chunk_path) for one listed file; a file that is gone raises
DelRemoveChunk(c, k) ==
    /\ pc[c] = "del_chunks"
    /\ k \in loc[c].pending
    /\ IF k \in DOMAIN chunk_files
       THEN /\ chunk_files' = MapDel(chunk_files, k)
            /\ loc' = [loc EXCEPT ![c].pending = @ \ {k},
                                  ![c].deleted_chunks = @ + 1]
            /\ UNCHANGED <<pc, ret, del_state, reingested>>
       ELSE /\ DelFail(c)
            /\ UNCHANGED chunk_files
    /\ UNCHANGED <<ckvars, configVars, rebuilt_at, invalidated, evicted, now,
                   metadata_files, cacheVars, indexVars,
                   index_last_refresh, calls, refreshVars, published>>

\* with self.cache_lock: both cache entries of the document are dropped
DelCache(c) ==
    /\ pc[c] = "del_chunks"
    /\ loc[c].pending = {}
    /\ metadata_cache' = CacheDel(metadata_cache, loc[c].doc_id)
    /\ chunks_cache' = CacheDel(chunks_cache, loc[c].doc_id)
    /\ Goto(c, "del_count")
    /\ UNCHANGED <<ckvars, configVars, rebuilt_at, invalidated, evicted, now,
                   storeVars, indexVars, index_last_refresh,
                   loc, ret, calls, refreshVars, histVars>>

\* with self.index_lock: total_documents -= 1 if positive; the stats saved
DelCount(c) ==
    /\ pc[c] = "del_count"
    /\ index_lock = "free"
    /\ LET n == IF total_documents > 0 THEN total_documents - 1
                ELSE total_documents
       IN  /\ total_documents' = n
           /\ stats_file' = SavedStats(doc_frequencies, n)
    /\ Goto(c, "del_inval")
    /\ UNCHANGED <<ckvars, configVars, rebuilt_at, invalidated, evicted, now,
                   storeVars, cacheVars, inverted_index,
                   doc_frequencies, index_lock, index_last_refresh, loc, ret,
                   calls, refreshVars, histVars>>

\* return deleted_chunks > 0
DeleteResult(call) == call.deleted_chunks > 0

\* self.index_last_refresh = 0; return deleted_chunks > 0
DelInvalidate(c) ==
    /\ pc[c] = "del_inval"
    /\ index_last_refresh' = 0
    /\ invalidated' = TRUE
    /\ DelReturn(c, DeleteResult(loc[c]))
    /\ UNCHANGED <<ckvars, configVars, rebuilt_at, evicted, now, storeVars,
                   cacheVars, indexVars, calls,
                   refreshVars, published>>

DeleteDocument(c) ==
    \/ \E d \in DocIds : DelStart(c, d)
    \/ DelRemoveMetadata(c)
    \/ DelList(c)
    \/ \E k \in loc[c].pending : DelRemoveChunk(c, k)
    \/ DelCache(c)
    \/ DelCount(c)
    \/ DelInvalidate(c)

(***************************************************************************)
(* search_documents                                                        *)
(***************************************************************************)
SearchResult(c, results) ==
    [op |-> "search_documents", val |-> results, gone |-> loc[c].gone,
     gone_alone |-> loc[c].gone_alone, overlapped |-> loc[c].overlapped,
     deleted_alone |-> loc[c].deleted_alone,
     read_index |-> loc[c].read_index, whole_index |-> loc[c].whole_index,
     args |-> loc[c].args, query_terms |-> loc[c].query_terms,
     scores |-> loc[c].scores, accumulated |-> loc[c].accumulated,
     missing |-> loc[c].missing]

\* history: the documents whose deletion an index rebuild has followed; and
\* those of them with no ingestion during or since the deletion
Rebuilt == {d \in DocIds : del_state[d] = "rebuilt"}
RebuiltAlone == Rebuilt \ reingested

\* history: the documents a delete_document call has run to its end for,
\* with no ingestion during or since it
DeletedAlone == {d \in DocIds : del_state[d] # "none"} \ reingested

\* the refresh thread is started and the query processed; without a query
\* term the call returns [] without reading the index
SearchStart(c, a) ==
    /\ Call(c, IF ProcessQuery(a.query) = EmptyMap THEN "s_load" ELSE "s_score")
    /\ CanSpawn
    /\ Spawn
    /\ loc' = [loc EXCEPT ![c] =
                  [op |-> "search_documents", args |-> a,
                   query_terms |-> ProcessQuery(a.query),
                   pending |-> {}, scores |-> EmptyMap,
                   accumulated |-> EmptyMap, results |-> <<>>,
                   missing |-> {}, read_index |-> FALSE, whole_index |-> TRUE,
                   overlapped |-> index_lock # "free",
                   gone |-> Rebuilt, gone_alone |-> RebuiltAlone,
                   deleted_alone |-> DeletedAlone]]
    /\ UNCHANGED <<ckvars, configVars, rebuilt_at, invalidated, evicted, now,
                   storeVars, cacheVars, indexVars,
                   index_last_refresh, rloc, histVars>>

\* mutant of SearchHoldsIndexLock: the index is read without the lock
SearchReadsUnlocked == TRUE

\* with self.index_lock: (line 569)
SearchHoldsIndexLock == index_lock = "free"

\* the scoring loop, the coverage boost, the threshold and the top_k cut
SearchScore(c) ==
    /\ pc[c] = "s_score"
    /\ SearchHoldsIndexLock
    /\ LET a == loc[c].args
           scores == ChunkScores(inverted_index, loc[c].query_terms, a.doc_ids)
       IN  \E top \in TopChoices(scores, a.min_score, a.top_k) :
               loc' = [loc EXCEPT ![c].scores = scores,
                                  ![c].accumulated =
                                      Accumulated(inverted_index,
                                                  loc[c].query_terms, a.doc_ids),
                                  ![c].pending = top,
                                  ![c].read_index = TRUE,
                                  ![c].whole_index = (inverted_index = published)]
    /\ Goto(c, "s_load")
    /\ UNCHANGED <<ckvars, configVars, rebuilt_at, invalidated, evicted, now,
                   storeVars, cacheVars, indexVars,
                   index_last_refresh, ret, calls, refreshVars, histVars>>

\* mutant of LoadChunkWithScore: a candidate of the index is returned
\* whether or not its file exists
LoadChunkUnchecked(files, k, score) ==
    <<[chunk |-> IF k \in DOMAIN files THEN files[k]
                 ELSE ChunkData(ChunkDocId(k), ChunkNum(k), <<>>, 0),
       score |-> score]>>

\* _load_chunk_with_score: the record with its score, or None (here the
\* empty list) when os.path.exists(chunk_path) is false
LoadChunkWithScore(files, k, score) ==
    IF k \in DOMAIN files THEN <<[chunk |-> files[k], score |-> score]>>
    ELSE <<>>

\* one pool task: _load_chunk_with_score; a file that is gone loads as None
SearchLoad(c, k) ==
    /\ pc[c] = "s_load"
    /\ k \in loc[c].pending
    /\ loc' = [loc EXCEPT
                 ![c].pending = @ \ {k},
                 ![c].results =
                     @ \o LoadChunkWithScore(chunk_files, k, loc[c].scores[k]),
                 ![c].missing =
                     IF k \in DOMAIN chunk_files THEN @ ELSE @ \cup {k}]
    /\ UNCHANGED <<ckvars, configVars, rebuilt_at, invalidated, evicted, now,
                   storeVars, cacheVars, indexVars,
                   index_last_refresh, pc, ret, calls, refreshVars, histVars>>

\* results.sort(key=score, reverse=True); return results
SearchReturn(c) ==
    /\ pc[c] = "s_load"
    /\ loc[c].pending = {}
    /\ Return(c, SearchResult(c, SortByScore(loc[c].results)))
    /\ UNCHANGED <<ckvars, configVars, rebuilt_at, invalidated, evicted, now,
                   storeVars, cacheVars, indexVars,
                   index_last_refresh, calls, refreshVars, histVars>>

SearchDocuments(c) ==
    \/ \E a \in SearchArgs : SearchStart(c, a)
    \/ SearchScore(c)
    \/ \E k \in loc[c].pending : SearchLoad(c, k)
    \/ SearchReturn(c)

(***************************************************************************)
(* clear_cache                                                             *)
(***************************************************************************)
\* with self.cache_lock: both caches are replaced by empty dicts
ClearCaches(c) ==
    /\ Call(c, "cc_index")
    /\ metadata_cache' = <<>>
    /\ chunks_cache' = <<>>
    /\ loc' = [loc EXCEPT ![c] = [op |-> "clear_cache", pending |-> {},
                                  alone |-> \A o \in Clients \ {c} : pc[o] = "idle",
                                  calls |-> calls + 1]]
    /\ rebuilt_at' = Disturbed
    /\ UNCHANGED <<ckvars, configVars, invalidated, evicted, now, storeVars,
                   indexVars, index_last_refresh,
                   refreshVars, histVars>>

\* with self.index_lock: inverted_index = {}; index_last_refresh = 0
ClearIndex(c) ==
    /\ pc[c] = "cc_index"
    /\ index_lock = "free"
    /\ inverted_index' = EmptyMap
    /\ index_last_refresh' = 0
    /\ published' = EmptyMap
    /\ Return(c, [op |-> "clear_cache"])
    /\ UNCHANGED <<ckvars, configVars, rebuilt_at, invalidated, evicted, now,
                   storeVars, cacheVars, doc_frequencies,
                   total_documents, stats_file, index_lock, calls,
                   refreshVars, del_state, reingested>>

ClearCache(c) == ClearCaches(c) \/ ClearIndex(c)

(***************************************************************************)
(* What a read returns when it runs from the current state with no step of *)
(* another thread in between.                                              *)
(***************************************************************************)
\* get_document_metadata(d): _cache_cleanup, the cache, then the file
GetDocumentMetadataNow(d) ==
    LET cache == Cleanup(metadata_cache, now, cache_ttl, cache_size)
    IN  IF CacheHas(cache, d) THEN CacheGet(cache, d)
        ELSE IF d \in DOMAIN metadata_files THEN metadata_files[d]
        ELSE NotFound

\* get_chunks(d): _cache_cleanup, the cache, then the files, sorted
GetChunksNow(d) ==
    LET cache == Cleanup(chunks_cache, now, cache_ttl, cache_size)
    IN  IF CacheHas(cache, d) THEN CacheGet(cache, d)
        ELSE SortByChunkId(InOrder({chunk_files[k] :
                                       k \in ChunkFilesOf(chunk_files, d)}))

\* search_documents(a): the sets of chunk records it can return, one for
\* each way the ties of the top_k cut can fall
SearchNow(a) ==
    LET scores == ChunkScores(inverted_index, ProcessQuery(a.query), a.doc_ids)
    IN  {{chunk_files[k] : k \in top \cap DOMAIN chunk_files} :
            top \in TopChoices(scores, a.min_score, a.top_k)}

\* search_documents(a): the result lists it can return, with their scores
SearchResultsNow(a) ==
    LET scores == ChunkScores(inverted_index, ProcessQuery(a.query), a.doc_ids)
    IN  UNION {{SortByScore([i \in DOMAIN o |->
                               [chunk |-> chunk_files[o[i]], score |-> scores[o[i]]]]) :
                  o \in Orders(top \cap DOMAIN chunk_files)} :
               top \in TopChoices(scores, a.min_score, a.top_k)}

(***************************************************************************)
(* The processor specification.                                            *)
(***************************************************************************)
Init == InitProcessor /\ ChunkerIdle

Next ==
    \/ Tick
    \/ \E r \in Refreshers : Refresh(r)
    \/ \E c \in Clients :
          \/ ProcessDocument(c)
          \/ GetDocumentMetadata(c)
          \/ GetChunks(c)
          \/ DeleteDocument(c)
          \/ SearchDocuments(c)
          \/ ClearCache(c)

Spec == Init /\ [][Next]_vars

(***************************************************************************)
(* The search specification: one caller searches a data directory that an  *)
(* earlier run has filled, with every kind of argument, while another      *)
(* caller may delete a document.  The clock stands still.                  *)
(***************************************************************************)
\* the data directory after process_document(content, p), and the rebuild
\* that follows it, on a directory that holds `store`
Ingested(store, content, p) ==
    LET new == StoreOf(content, p)
        files == [k \in DOMAIN store.chunks \cup DOMAIN new.chunks |->
                     IF k \in DOMAIN new.chunks THEN new.chunks[k]
                     ELSE store.chunks[k]]
        metadata == [d \in DOMAIN store.metadata \cup DOMAIN new.metadata |->
                        IF d \in DOMAIN new.metadata THEN new.metadata[d]
                        ELSE store.metadata[d]]
        terms == [k \in DOMAIN files |-> TermFreqs(files[k].content)]
    IN  [metadata |-> metadata, chunks |-> files,
         stats |-> [doc_frequencies |-> DocFrequencies(terms),
                    total_documents |-> Cardinality(DOMAIN metadata)]]

FixedParams == [chunk_size |-> 4, chunk_overlap |-> 1, smart_chunking |-> FALSE]
SmartParams == [chunk_size |-> 8, chunk_overlap |-> 0, smart_chunking |-> TRUE]
WholeParams == [chunk_size |-> 16, chunk_overlap |-> 0, smart_chunking |-> FALSE]

\* two directories: TextA in two chunks and TextS; and the same after TextA
\* was ingested again as one chunk, which leaves its second chunk file
SearchStores ==
    {Ingested(StoreOf(TextA, FixedParams), TextS, WholeParams),
     Ingested(Ingested(StoreOf(TextA, FixedParams), TextA, SmartParams),
              TextS, WholeParams)}

WideQueries ==
    {<<"a", "a", "a", " ", "b", "b", "b">>,
     <<"B", "b", "b">>,
     <<"T", "h", "e", " ", "a", "b", " ", "c", "c", "c">>,
     <<"b", "b", "b", " ", "b", "b", "b", "b">>}

\* min_score in millionths: none, and one between the scores of the model
MinScores == {0, 3000000}

WideSearchArgs ==
    [query : WideQueries, top_k : 0..MaxTopK, min_score : MinScores,
     doc_ids : {[given |-> FALSE, ids |-> {}], [given |-> TRUE, ids |-> {}],
                [given |-> TRUE, ids |-> {"dS"}]}]

SearchDocumentsWide(c) ==
    \/ \E a \in WideSearchArgs : SearchStart(c, a)
    \/ SearchScore(c)
    \/ \E k \in loc[c].pending : SearchLoad(c, k)
    \/ SearchReturn(c)

InitSearch == InitOn(SearchStores) /\ ChunkerIdle

NextSearch ==
    \/ \E r \in Refreshers : Refresh(r)
    \/ SearchDocumentsWide("c1")
    \/ DeleteDocument("c2")

SpecSearch == InitSearch /\ [][NextSearch]_vars

(***************************************************************************)
(* The cache specification: one caller reads metadata and chunks of three  *)
(* stored documents through caches that earlier calls have filled, for     *)
(* several cache sizes and lifetimes, while the clock advances.            *)
(***************************************************************************)
MaxCacheSize == 2
MaxCacheTtl == 1

CacheDocIds == {Md5(TextA), Md5(TextE), Md5(TextS)}

\* TextA in two chunks, the empty document, and TextS in one chunk
CacheStore ==
    Ingested(Ingested(StoreOf(TextA, FixedParams), TextE, FixedParams),
             TextS, WholeParams)

\* a cache holding the given keys in insertion order, with their values
\* from the store and the times of their last put or hit
WarmCache(keys, times, value) ==
    [i \in DOMAIN keys |->
        [key |-> keys[i], val |-> value[keys[i]], ts |-> times[i]]]

\* what get_chunks reads from the chunk files of each document
StoredChunks(files) ==
    [d \in CacheDocIds |->
        SortByChunkId(InOrder({files[k] : k \in ChunkFilesOf(files, d)}))]

\* the insertion orders of the documents a cache can hold
KeyLists == UNION {Orders(S) : S \in SUBSET CacheDocIds}

\* both caches hold the same documents, in any insertion order, each put or
\* hit at the start time or before it
InitCache ==
    /\ now = StartTime
    /\ InitFiles({CacheStore})
    /\ cache_size \in 0..MaxCacheSize
    /\ cache_ttl \in 0..MaxCacheTtl
    /\ \E keys \in KeyLists :
          \E times \in [DOMAIN keys -> 0..StartTime] :
              /\ metadata_cache = WarmCache(keys, times, metadata_files)
              /\ chunks_cache = WarmCache(keys, times, StoredChunks(chunk_files))
    /\ evicted = NoneEvicted
    /\ InitThreads(CacheDocIds)
    /\ ChunkerIdle

\* get_document_metadata and get_chunks for any of the stored documents
CachedReads(c) ==
    \/ \E d \in CacheDocIds : GmStart(c, d)
    \/ GmCheck(c)
    \/ GmRead(c)
    \/ GmPut(c)
    \/ \E d \in CacheDocIds : GcStart(c, d)
    \/ GcCheck(c)
    \/ GcList(c)
    \/ \E k \in loc[c].pending : GcLoad(c, k)
    \/ GcPut(c)

NextCache ==
    \/ Tick
    \/ CachedReads("c1")

SpecCache == InitCache /\ [][NextCache]_vars

(***************************************************************************)
(* The refresh specification: two refresh threads at a time, the one the   *)
(* constructor starts and one started by a call, with one caller that      *)
(* searches and one that ingests and deletes, while the clock advances.    *)
(***************************************************************************)
RefreshPool == {"r1", "r2"}

InitRefresh ==
    /\ InitStore(Stores)
    /\ InitCallers(DocIds)
    /\ InitRefreshers(RefreshPool)
    /\ ChunkerIdle

NextRefresh ==
    \/ Tick
    \/ \E r \in RefreshPool : Refresh(r)
    \/ SearchDocuments("c1")
    \/ ProcessDocument("c2")
    \/ DeleteDocument("c2")

SpecRefresh == InitRefresh /\ [][NextRefresh]_vars

(***************************************************************************)
(* The scan specification: a data directory of an earlier run, with the    *)
(* documents TextA and TextS, in which a metadata file and a chunk file    *)
(* may be malformed; one caller lists the documents while the refresh      *)
(* thread of the constructor rebuilds the index.                           *)
(***************************************************************************)
\* a metadata record with the created_at stamp process_document gives it
Stamped(m, t) ==
    [doc_id |-> m.doc_id, chunk_size |-> m.chunk_size,
     chunk_overlap |-> m.chunk_overlap, smart_chunking |-> m.smart_chunking,
     total_chunks |-> m.total_chunks, total_chars |-> m.total_chars,
     created_at |-> t]

\* the name of the file that may be malformed
OddId == "dZ"
Malformed == {Truncated, JsonArray}

\* the well-formed part of the directory
ScanStore ==
    LET a == StoreOf(TextA, [chunk_size |-> 4, chunk_overlap |-> 1,
                             smart_chunking |-> FALSE])
        b == StoreOf(TextS, [chunk_size |-> 10, chunk_overlap |-> 0,
                             smart_chunking |-> FALSE])
    IN  [metadata |-> MapPut(MapPut(EmptyMap, Md5(TextA),
                                    Stamped(a.metadata[Md5(TextA)], 0)),
                             Md5(TextS), Stamped(b.metadata[Md5(TextS)], 1)),
         chunks |-> [k \in DOMAIN a.chunks \cup DOMAIN b.chunks |->
                        IF k \in DOMAIN a.chunks THEN a.chunks[k]
                        ELSE b.chunks[k]]]

InitScan ==
    /\ now = StartTime
    /\ \E m \in Malformed \cup {NotFound}, k \in Malformed \cup {NotFound} :
           /\ metadata_files =
                  IF m = NotFound THEN ScanStore.metadata
                  ELSE MapPut(ScanStore.metadata, OddId, m)
           /\ chunk_files =
                  IF k = NotFound THEN ScanStore.chunks
                  ELSE MapPut(ScanStore.chunks, <<OddId, 0>>, k)
    /\ stats_file = EmptyStore.stats
    /\ doc_frequencies = EmptyMap
    /\ total_documents = 0
    /\ metadata_cache = <<>>
    /\ chunks_cache = <<>>
    /\ cache_size = CacheSize
    /\ cache_ttl = CacheTtl
    /\ evicted = NoneEvicted
    /\ InitThreads(DocIds)
    /\ ChunkerIdle

NextScan ==
    \/ \E r \in Refreshers : Refresh(r)
    \/ ListDocuments("c1")

SpecScan == InitScan /\ [][NextScan]_vars

(***************************************************************************)
(* The faulty-store specification: one caller ingests into a store whose    *)
(* chunk writes can fail, next to the refresh thread.                      *)
(***************************************************************************)
NextFaulty ==
    \/ \E r \in Refreshers : Refresh(r)
    \/ ProcessDocument("c1")
    \/ \E i \in loc["c1"].pending : PdSaveChunkFails("c1", i)

SpecFaulty == Init /\ [][NextFaulty]_vars

(***************************************************************************)
(* The liveness specification: one caller ingests, one deletes and ingests *)
(* the empty text, next to the refresh threads.  Every thread that has a   *)
(* step to take eventually takes one: a refresh thread runs on, blocking   *)
(* only on index_lock, and a call that has started runs to its end.  No    *)
(* caller is obliged to start a call.                                      *)
(***************************************************************************)
InitLive == InitOn(Stores) /\ ChunkerIdle

\* process_document of the empty text with fixed-size chunking by caller c
IngestOther(c) ==
    /\ ProcessDocument(c)
    /\ pc[c] = "idle" =>
          /\ loc'[c].doc_id = Md5(TextE)
          /\ loc'[c].params.smart_chunking = FALSE

NextLive ==
    \/ \E r \in Refreshers : Refresh(r)
    \/ ProcessDocument("c1")
    \/ IngestOther("c2")
    \/ DeleteDocument("c2")

\* the steps of the call that caller c is in
ContinueCall(c) == pc[c] # "idle" /\ (ProcessDocument(c) \/ DeleteDocument(c))

FairScheduling ==
    /\ \A r \in Refreshers : WF_vars(Refresh(r))
    /\ \A c \in Clients : WF_vars(ContinueCall(c))

SpecLive == InitLive /\ [][NextLive]_vars /\ FairScheduling


(***************************************************************************)
(* Properties of the processor.                                            *)
(***************************************************************************)
AllIdle == \A c \in Clients : pc[c] = "idle"

\* C1: once the calls made have completed, neither metadata_cache nor
\* chunks_cache holds more than cache_size entries.
C1_CacheBound ==
    (AllIdle /\ calls > 0) =>
        /\ Len(metadata_cache) <= CacheSize
        /\ Len(chunks_cache) <= CacheSize

\* C2: after delete_document(d) has run to its end, with no ingestion of d during
\* or since it, every get_document_metadata(d) reports not-found and every
\* get_chunks(d) returns no chunks, also when a read of d was in flight
\* during the delete.
C2_DeletedStaysDeleted ==
    /\ \A d \in DocIds :
          (AfterDelete(d) /\ Deleting(d) = {}) =>
              /\ GetDocumentMetadataNow(d) = NotFound
              /\ GetChunksNow(d) = <<>>
    /\ \A c \in Clients :
          /\ (ret[c].op = "get_document_metadata" /\ ret[c].after_delete)
                => ret[c].val = NotFound
          /\ (ret[c].op = "get_chunks" /\ ret[c].after_delete)
                => ret[c].val = <<>>

ReturnedDocs(results) == {results[i].chunk.doc_id : i \in DOMAIN results}

C4_TrueIffRemoved ==
    \A c \in Clients :
        (ret[c].op = "delete_document" /\ ret[c].alone) =>
            (ret[c].val <=> ret[c].removed)

\* C5: while process_document is ingesting d (and nothing deletes d), a
\* reader never gets chunks of d together with a not-found for its metadata,
\* nor a metadata record together with fewer chunks than its total_chunks.
C5_AtomicIngestion ==
    \A d \in DocIds :
        (Ingesting(d) # {} /\ Deleting(d) = {} /\ del_state[d] = "none") =>
            LET metadata == GetDocumentMetadataNow(d)
                chunks == GetChunksNow(d)
            IN  /\ ~(chunks # <<>> /\ metadata = NotFound)
                /\ metadata # NotFound => Len(chunks) >= metadata.total_chunks

\* C6: the index a search_documents call scores against is the result of
\* one completed rebuild, or the empty index before the first rebuild or
\* after clear_cache; it is never an index under construction.
C6_SearchReadsWholeIndex ==
    \A c \in Clients :
        /\ loc[c].op = "search_documents" => loc[c].whole_index
        /\ ret[c].op = "search_documents" => ret[c].whole_index

\* a search that waited for a rebuild in progress has then scored the
\* rebuilt index and returned a chunk
C6_Witness ==
    \E c \in Clients :
        /\ ret[c].op = "search_documents"
        /\ ret[c].overlapped
        /\ ret[c].read_index
        /\ ret[c].val # <<>>

\* C7: after process_document(content) has returned, with no other caller
\* at work, there is one metadata record for the document id and the chunk
\* records of the id are exactly the chunks of that ingestion.
C7_ReingestOverwrites ==
    \A c \in Clients :
        (/\ AllIdle
         /\ ret[c].op = "process_document"
         /\ \A x \in Clients \ {c} : ret[x] = NoCall) =>
            LET d == ret[c].doc_id
                chunks == ret[c].chunks
            IN  /\ d \in DOMAIN metadata_files
                /\ ChunkFilesOf(chunk_files, d)
                       = {<<d, i>> : i \in 0..(Len(chunks) - 1)}
                /\ \A i \in 0..(Len(chunks) - 1) :
                       chunk_files[<<d, i>>].content = chunks[i + 1]

(***************************************************************************)
(* Chunker claims.                                                         *)
(***************************************************************************)
\* chunk[overlap:]
DropOverlap(chunk, chunk_overlap) == SubSeq(chunk, chunk_overlap + 1, Len(chunk))

\* the first chunk whole, every later chunk without its first overlap characters
Reassemble(chunks, chunk_overlap) ==
    IF chunks = <<>> THEN <<>>
    ELSE Head(chunks) \o
         Concat([i \in 1..(Len(chunks) - 1) |->
                    DropOverlap(chunks[i + 1], chunk_overlap)])

\* C8: in fixed mode, the first chunk followed by every later chunk without
\* its first chunk_overlap characters is the original text.
C8_FixedCoverage ==
    ck_mode = "fixed" => Reassemble(ck_chunks, ck_overlap) = ck_text

C8_Witness ==
    /\ ck_mode = "fixed"
    /\ Len(ck_chunks) >= 3
    /\ ck_overlap > 0
    /\ Reassemble(ck_chunks, ck_overlap) = ck_text

\* C9: in structure-aware mode, the first chunk followed by every later
\* chunk without its first chunk_overlap characters is the original text.
C9_SmartCoverage ==
    ck_mode = "smart" => Reassemble(ck_chunks, ck_overlap) = ck_text

\* C10 as stated: in both modes every text of length <= chunk_size yields
\* exactly one chunk equal to the text.
C10_SingleChunkAnyText ==
    (ck_mode # "none" /\ Len(ck_text) <= ck_size) => ck_chunks = <<ck_text>>

\* C10 amended: in both modes every non-empty text of length <= chunk_size
\* yields exactly one chunk equal to the text, and the empty text yields no
\* chunk.
C10_SingleChunk ==
    ck_mode # "none" =>
        /\ (ck_text # <<>> /\ Len(ck_text) <= ck_size) => ck_chunks = <<ck_text>>
        /\ ck_text = <<>> => ck_chunks = <<>>

C10_Witness ==
    /\ ck_mode = "smart"
    /\ Len(ck_text) = ck_size
    /\ ck_size >= 2
    /\ \E k \in 1..Len(ck_text) : ck_text[k] = "\n"
    /\ ck_chunks = <<ck_text>>

\* the window of chunk number i (from 0): it starts at
\* i * (chunk_size - chunk_overlap)
WindowStart(i) == i * (ck_size - ck_overlap)
WindowEnd(i) == Min(WindowStart(i) + ck_size, Len(ck_text))

\* C11: for a text longer than chunk_size, chunk i of _chunk_text is the
\* substring that starts at i * (chunk_size - overlap) and has length
\* min(chunk_size, remaining text); the last chunk ends at the end of the
\* text, and no chunk before the last reaches the end of the text.
C11_FixedWindows ==
    (ck_mode = "fixed" /\ Len(ck_text) > ck_size) =>
        /\ ck_chunks # <<>>
        /\ \A n \in 1..Len(ck_chunks) :
              /\ WindowStart(n - 1) < Len(ck_text)
              /\ ck_chunks[n] = PySlice(ck_text, WindowStart(n - 1), WindowEnd(n - 1))
              /\ Len(ck_chunks[n])
                     = Min(ck_size, Len(ck_text) - WindowStart(n - 1))
              /\ (WindowEnd(n - 1) = Len(ck_text)) <=> (n = Len(ck_chunks))

\* a text cut into overlapping windows, the last of them shorter than
\* chunk_size
C11_Witness ==
    /\ ck_mode = "fixed"
    /\ Len(ck_text) > ck_size
    /\ ck_overlap > 0
    /\ Len(ck_chunks) >= 2
    /\ Len(ck_chunks[Len(ck_chunks)]) < ck_size

(***************************************************************************)
(* Properties of the search pipeline.                                      *)
(***************************************************************************)
ChunkKey(chunk) == <<chunk.doc_id, chunk.chunk_id>>
ReturnedKeys(results) == {ChunkKey(results[i].chunk) : i \in DOMAIN results}
Searched(c) == ret[c].op = "search_documents"

\* C12: search_documents returns at most top_k records, each with a score
\* >= min_score, in order of non-increasing score; and no candidate that was
\* not returned, and whose chunk record was there when the search loaded
\* its top candidates, has a score greater than a returned one.
C12_ThresholdAndRank ==
    \A c \in Clients :
        Searched(c) =>
            LET r == ret[c]
                v == r.val
            IN  /\ Len(v) <= r.args.top_k
                /\ \A i \in DOMAIN v : v[i].score >= r.args.min_score
                /\ \A i, j \in DOMAIN v : i < j => v[i].score >= v[j].score
                /\ \A k \in DOMAIN r.scores \ (ReturnedKeys(v) \cup r.missing) :
                       \A i \in DOMAIN v : r.scores[k] <= v[i].score

\* a search with top_k = 1 has returned the better of two candidates that
\* both pass the threshold
C12_Witness ==
    \E c \in Clients :
        /\ Searched(c)
        /\ ret[c].args.top_k = 1
        /\ Len(ret[c].val) = 1
        /\ \E k \in DOMAIN ret[c].scores :
              /\ ret[c].scores[k] >= ret[c].args.min_score
              /\ ret[c].scores[k] < ret[c].val[1].score

\* C13: whenever the caller supplies a document-id allow-list to
\* search_documents, an empty one included, every returned chunk belongs to
\* a document whose id is in that list.
C13_AllowList ==
    \A c \in Clients :
        (Searched(c) /\ ret[c].args.doc_ids.given) =>
            \A i \in DOMAIN ret[c].val :
                ret[c].val[i].chunk.doc_id \in ret[c].args.doc_ids.ids

\* the step in which client c calls search_documents with a query that has
\* no surviving term
EmptyQuerySearchCalled(c) ==
    /\ pc[c] = "idle"
    /\ pc'[c] # "idle"
    /\ loc'[c].op = "search_documents"
    /\ loc'[c].query_terms = EmptyMap

\* C14: a search_documents call whose query yields zero surviving terms
\* returns an empty result set without touching the index: it does not read
\* the inverted index, it neither requests nor starts an index rebuild, and
\* it leaves the index state unchanged.
C14_EmptyQueryLeavesIndex ==
    [][\A c \in Clients :
           /\ EmptyQuerySearchCalled(c) => UNCHANGED <<rpc, indexVars, index_last_refresh>>
           /\ (Searched(c)' /\ ret'[c].query_terms = EmptyMap) =>
                  (ret'[c].val = <<>> /\ ~ret'[c].read_index)]_vars

\* client c has ingested document d as a single chunk, the store holds
\* nothing else, and the refresh thread started by the ingestion has ended
\* with no clear_cache since
IngestedSingleChunk(c, d) ==
    /\ ret[c].op = "process_document"
    /\ ret[c].val = d
    /\ Len(ret[c].chunks) = 1
    /\ DOMAIN metadata_files = {d}
    /\ DOMAIN chunk_files = {<<d, 0>>}
    /\ \A r \in Refreshers : rpc[r] = "idle"
    /\ index_lock = "free"
    /\ index_last_refresh > 0

BothTermsQuery ==
    [query |-> <<"a", "a", "a", " ", "b", "b", "b">>, top_k |-> 1, min_score |-> 0,
     doc_ids |-> [given |-> FALSE, ids |-> {}]]
AbsentTermQuery ==
    [query |-> <<"c", "c", "c">>, top_k |-> 1, min_score |-> 0,
     doc_ids |-> [given |-> FALSE, ids |-> {}]]

\* C15: after a single-chunk document has been ingested and the rebuild
\* started by that ingestion has completed, a search with top_k = 1 and
\* min_score = 0 for two terms of the chunk returns exactly that chunk with
\* a score greater than zero, and a search whose only term is in no chunk
\* returns the empty list.
C15_EndToEnd ==
    \A c \in Clients, d \in DocIds :
        (/\ IngestedSingleChunk(c, d)
         /\ DOMAIN ProcessQuery(BothTermsQuery.query)
                \subseteq DOMAIN TermFreqs(chunk_files[<<d, 0>>].content)) =>
            /\ \A res \in SearchResultsNow(BothTermsQuery) :
                   /\ Len(res) = 1
                   /\ res[1].chunk = chunk_files[<<d, 0>>]
                   /\ res[1].score > 0
            /\ SearchResultsNow(AbsentTermQuery) = {<<>>}

\* the single-chunk ingestion of "Aaa bbb" has returned and its rebuild has
\* completed
C15_Witness ==
    \E c \in Clients :
        /\ IngestedSingleChunk(c, "dA")
        /\ chunk_files[<<"dA", 0>>].content = TextA
        /\ <<"a", "a", "a">> \in DOMAIN inverted_index

\* a token under 3 characters or in the stop-word set
Excluded(t) == Len(t) < 3 \/ t \in StopWords

\* C16: the inverted index has no key that is shorter than 3 characters or
\* in the stop-word set, and _process_query returns no such term, so the
\* terms a search scores its candidates through never include such a token.
C16_NoExcludedToken ==
    /\ \A t \in DOMAIN inverted_index : ~Excluded(t)
    /\ \A q \in WideQueries : \A t \in DOMAIN ProcessQuery(q) : ~Excluded(t)
    /\ \A c \in Clients :
           Searched(c) => \A t \in DOMAIN ret[c].query_terms : ~Excluded(t)

\* the index was rebuilt over the chunk "The ab ccc", and a search for
\* "The ab ccc" has returned it, scored through "ccc" alone
C16_Witness ==
    \E c \in Clients :
        /\ Searched(c)
        /\ ret[c].args.query = TextS
        /\ DOMAIN ret[c].query_terms = {<<"c", "c", "c">>}
        /\ \E i \in DOMAIN ret[c].val : ret[c].val[i].chunk.content = TextS

\* C17: of two candidates of a search with equal accumulated score before
\* the coverage boost, the one that matches strictly more distinct query
\* terms has a final score >= the other's.
C17_RankingMonotone ==
    \A c \in Clients :
        Searched(c) =>
            \A a, b \in DOMAIN ret[c].scores :
                (/\ ret[c].accumulated[a].sum = ret[c].accumulated[b].sum
                 /\ ret[c].accumulated[a].matched > ret[c].accumulated[b].matched) =>
                    ret[c].scores[a] >= ret[c].scores[b]

\* a search has scored two candidates of equal accumulated score, one of
\* which matches both query terms and the other only one
C17_Witness ==
    \E c \in Clients :
        /\ Searched(c)
        /\ \E a, b \in DOMAIN ret[c].scores :
               /\ ret[c].accumulated[a].sum = ret[c].accumulated[b].sum
               /\ ret[c].accumulated[a].sum > 0
               /\ ret[c].accumulated[a].matched = 2
               /\ ret[c].accumulated[b].matched = 1
               /\ ret[c].scores[a] > ret[c].scores[b]

(***************************************************************************)
(* Properties of the caches.                                               *)
(***************************************************************************)
CacheTs(cache, k) == cache[CacheIdx(cache, k)].ts

\* the step in which a read that is at its cache check returns: it returns
\* the cached value
ServedFromCache(c, label) == pc[c] = label /\ pc'[c] = "idle"

\* the entry for k is present and at most cache_ttl old when it is read,
\* and the read leaves it with the current time as its timestamp
FreshHit(cache, cache_after, k) ==
    /\ CacheHas(cache, k)
    /\ now - CacheTs(cache, k) <= cache_ttl
    /\ CacheHas(cache_after, k)
    /\ CacheTs(cache_after, k) = now

\* C18: get_document_metadata(id) and get_chunks(id) return a value from the
\* cache only if an entry for id is present and its timestamp is at most
\* cache_ttl old at the time of the read, and a hit resets the timestamp of
\* the entry to the current time.
C18_CacheRead ==
    [][\A c \in Clients :
           /\ ServedFromCache(c, "gm_check") =>
                  FreshHit(metadata_cache, metadata_cache', loc[c].doc_id)
           /\ ServedFromCache(c, "gc_check") =>
                  FreshHit(chunks_cache, chunks_cache', loc[c].doc_id)]_vars

\* of the entries a cleanup dropped from a cache for its size, each is at
\* least as old as every entry it kept, and it kept cache_size entries
OldestDropped(dropped, cache) ==
    /\ \A e \in dropped : \A i \in DOMAIN cache : e.ts <= cache[i].ts
    /\ dropped # {} => Len(cache) = cache_size

\* the call at its cache check: _cache_cleanup has just run
CleanedUp(c) == pc[c] \in {"gm_check", "gc_check"}

\* C19: whenever _cache_cleanup evicts entries because a cache exceeds
\* cache_size, the timestamp of every evicted entry is <= the timestamp of
\* every entry that is retained, and the cache is left with cache_size
\* entries.
C19_EvictsOldest ==
    \A c \in Clients :
        CleanedUp(c) =>
            /\ OldestDropped(evicted.metadata_cache, metadata_cache)
            /\ OldestDropped(evicted.chunks_cache, chunks_cache)

\* a cleanup has evicted an entry that was inserted after a younger entry
\* which it retained
C19_Witness ==
    \E c \in Clients :
        /\ CleanedUp(c)
        /\ cache_size = 1
        /\ \E e \in evicted.metadata_cache :
               /\ e.ts < metadata_cache[1].ts
               /\ e.key = "dS"
               /\ metadata_cache[1].key = "dA"
        /\ evicted.chunks_cache # {}

\* C20: get_chunks(id) returns chunks of the document id only, in strictly
\* increasing chunk_id order, whether it loaded them from the chunk files,
\* the loads completing in any order, or took them from the cache.
C20_ChunksInOrder ==
    \A c \in Clients :
        ret[c].op = "get_chunks" =>
            LET v == ret[c].val
            IN  /\ \A i \in DOMAIN v : v[i].doc_id = ret[c].doc_id
                /\ \A i, j \in DOMAIN v : i < j => v[i].chunk_id < v[j].chunk_id

\* get_chunks has returned two chunks whose loads completed in the reverse
\* order
C20_Witness ==
    \E c \in Clients :
        /\ ret[c].op = "get_chunks"
        /\ ret[c].served = "store"
        /\ Len(ret[c].completed) = 2
        /\ ret[c].completed[1].chunk_id > ret[c].completed[2].chunk_id
        /\ Len(ret[c].val) = 2

\* get_chunks has returned two chunks from the cache
C20_WitnessCached ==
    \E c \in Clients :
        /\ ret[c].op = "get_chunks"
        /\ ret[c].served = "cache"
        /\ Len(ret[c].val) = 2

\* the step in which client c returns from clear_cache
ClearCacheReturns(c) == pc[c] = "cc_index" /\ pc'[c] = "idle"

\* no other call was in progress while the clear_cache call of c ran
RanAlone(c) ==
    /\ loc[c].alone
    /\ loc[c].calls = calls
    /\ \A o \in Clients \ {c} : pc[o] = "idle"

\* the step in which refresh thread r, holding index_lock, evaluates the
\* rate limit
RefreshChecks(r) == rpc[r] = "lock" /\ rpc'[r] # "lock"

\* the calls made so far are one clear_cache, which has returned, and one
\* search_documents by the other client
SearchedAndCleared ==
    /\ calls = 2
    /\ \E c, o \in Clients :
          /\ c # o
          /\ ret[o].op = "clear_cache"
          /\ loc[c].op = "search_documents" \/ ret[c].op = "search_documents"

\* C21 as stated: when clear_cache returns, both caches and the published
\* inverted index are empty, and the rebuild requested by the next
\* search_documents call is a full rebuild, not a rate-limited no-op.
C21_AsStated ==
    [][ /\ \A c \in Clients :
              ClearCacheReturns(c) =>
                  /\ metadata_cache' = <<>>
                  /\ chunks_cache' = <<>>
                  /\ inverted_index' = EmptyMap
        /\ \A r \in Refreshers :
              RefreshChecks(r) /\ SearchedAndCleared => rpc'[r] = "chunks" ]_vars

\* C21: when clear_cache returns, the published inverted index is empty and
\* index_last_refresh is 0; both caches are empty if no other call ran while
\* clear_cache did; and the next refresh thread to evaluate the rate limit
\* while index_last_refresh is still 0 performs a full rebuild.
C21_ClearForcesRebuild ==
    [][ /\ \A c \in Clients :
              ClearCacheReturns(c) =>
                  /\ inverted_index' = EmptyMap
                  /\ index_last_refresh' = 0
                  /\ RanAlone(c) => metadata_cache' = <<>> /\ chunks_cache' = <<>>
        /\ \A r \in Refreshers :
              RefreshChecks(r) /\ index_last_refresh = 0 => rpc'[r] = "chunks" ]_vars

\* clear_cache has returned, the other client has called search_documents
\* and the refresh thread is rebuilding the index from a non-empty store
C21_Witness ==
    /\ SearchedAndCleared
    /\ index_last_refresh = 0
    /\ chunk_files # <<>>
    /\ \E r \in Refreshers : rpc[r] = "read" /\ index_lock = r

\* neither a metadata file nor a chunk file of d is in the data directory
NoStoredRecords(d) ==
    /\ d \notin DOMAIN metadata_files
    /\ ChunkFilesOf(chunk_files, d) = {}

\* delete_document(d) run from the current state with no step of another
\* thread in between: deleted_chunks > 0
DeleteDocumentNow(d) == Cardinality(DeleteListing(chunk_files, d)) > 0

\* C22: for an identifier with no stored records, and with no ingestion or
\* deletion of it in progress, get_document_metadata returns None,
\* get_chunks returns an empty list and delete_document returns False.
C22_NotFound ==
    \A d \in DocIds :
        (NoStoredRecords(d) /\ Ingesting(d) = {} /\ Deleting(d) = {}) =>
            /\ GetDocumentMetadataNow(d) = NotFound
            /\ GetChunksNow(d) = <<>>
            /\ ~DeleteDocumentNow(d)

\* C23: at most one refresh thread is between the rate-limit check and the
\* final write of index_last_refresh, and it holds index_lock; a thread
\* evaluates the rate limit and starts its rebuild in one step, taken when
\* no other thread is rebuilding.
C23_RebuildMutualExclusion ==
    /\ [](/\ Cardinality(Rebuilding) <= 1
          /\ \A r \in Rebuilding : index_lock = r)
    /\ [][\A r \in DOMAIN rpc :
             RefreshChecks(r) =>
                 /\ Rebuilding = {}
                 /\ rpc'[r] \in {"idle", "chunks"}
                 /\ rpc'[r] = "chunks" => index_lock' = r]_vars

\* one refresh thread is rebuilding while the other, started by a call, waits
\* for index_lock
C23_Witness ==
    /\ rpc["r1"] = "read"
    /\ rpc["r2"] = "lock"
    /\ index_lock = "r1"

\* C24: a rebuild request that arrives while another rebuild is executing
\* returns at once: it can take its next step while that rebuild still runs,
\* and when it takes it, it returns without scanning the store or rewriting
\* the index.
C24_ReturnsImmediately ==
    /\ [](\A r \in DOMAIN rpc :
             (rpc[r] = "lock" /\ rloc[r].behind /\ Rebuilding # {})
                 => ENABLED RefreshAcquire(r))
    /\ [][\A r \in DOMAIN rpc :
             (RefreshChecks(r) /\ rloc[r].behind) =>
                 /\ rpc'[r] = "idle"
                 /\ UNCHANGED <<inverted_index, doc_frequencies, total_documents,
                                stats_file, index_last_refresh>>]_vars

\* the rate-limited return of refresh thread r: nothing is scanned, and the
\* index, the statistics and index_last_refresh stay as they are
RefreshNoOp(r) ==
    /\ rpc'[r] = "idle"
    /\ UNCHANGED <<inverted_index, doc_frequencies, total_documents,
                   stats_file, index_last_refresh>>

\* C25: a rebuild request made less than index_refresh_interval after the
\* last rebuild completed, with no ingest, delete or clear_cache in
\* between, is a no-op.
C25_RateLimitedNoOp ==
    [][\A r \in DOMAIN rpc :
          ( /\ RefreshChecks(r)
            /\ rebuilt_at > 0
            /\ rloc[r].now >= rebuilt_at
            /\ rloc[r].now - rebuilt_at < RefreshInterval )
              => RefreshNoOp(r)]_vars

\* C26: once process_document or delete_document has reset
\* index_last_refresh, the next refresh thread to evaluate the rate limit
\* performs a full rebuild, whatever rebuilds were waiting or executing when
\* the reset happened.
C26_InvalidationNotLost ==
    [][\A r \in DOMAIN rpc :
          (RefreshChecks(r) /\ invalidated) => rpc'[r] = "chunks"]_vars

\* the inverted index names no chunk of document d
NoIndexEntry(d) ==
    \A t \in DOMAIN inverted_index :
        \A k \in DOMAIN inverted_index[t] : ChunkDocId(k) # d

\* the last call of caller c was delete_document(d), it ran to its end, and
\* no caller is inside a call
DeleteReturned(c, d) ==
    /\ ret[c].op = "delete_document"
    /\ ret[c].doc_id = d
    /\ ret[c].val
    /\ \A o \in Clients : pc[o] = "idle"

\* a caller has started a call
CallStarted == \E c \in Clients : pc[c] # "idle"

\* C27: after delete_document(d) has returned, with no further call and
\* under fair scheduling, a rebuild eventually runs and the inverted index
\* eventually names no chunk of d.
C27_DeleteEventuallyUnindexed ==
    \A d \in DocIds :
        DeleteReturned("c2", d) ~> (NoIndexEntry(d) \/ CallStarted)

\* the inverted index has, for every chunk of the ingestion and every term
\* of that chunk that survives the token filter, an entry for the chunk
Indexed(d, chunks) ==
    \A i \in DOMAIN chunks :
        \A t \in DOMAIN TermFreqs(chunks[i]) :
            /\ t \in DOMAIN inverted_index
            /\ <<d, i - 1>> \in DOMAIN inverted_index[t]

\* the last call of caller c was process_document, and it returned d
IngestReturned(c, d) ==
    /\ ret[c].op = "process_document"
    /\ ret[c].val = d
    /\ pc[c] = "idle"

\* a delete_document(d) or process_document call for d is the current or
\* the last call of caller c
TouchedBy(c, d) ==
    \/ loc[c].op \in {"delete_document", "process_document"} /\ loc[c].doc_id = d
    \/ ret[c].op \in {"delete_document", "process_document"} /\ ret[c].doc_id = d

\* C28: after process_document has returned d, with no further call of the
\* ingesting caller and no other call for d, under fair scheduling the
\* inverted index eventually has an entry for every chunk of d under every
\* surviving term of that chunk, whatever rebuilds, ingestions and deletions
\* of other documents run alongside.
C28_IngestEventuallyIndexed ==
    \A d \in DocIds :
        IngestReturned("c1", d) ~>
            \/ IngestReturned("c1", d) /\ Indexed(d, ret["c1"].chunks)
            \/ pc["c1"] # "idle"
            \/ TouchedBy("c2", d)

\* the ingestion of "Aaa bbb" in two chunks has returned, the other caller
\* has deleted another document, and both chunks are in the index
C28_Witness ==
    /\ IngestReturned("c1", "dA")
    /\ Len(ret["c1"].chunks) = 2
    /\ Indexed("dA", ret["c1"].chunks)
    /\ <<"b", "b", "b">> \in DOMAIN inverted_index
    /\ ret["c2"].op = "delete_document"
    /\ ret["c2"].doc_id # "dA"

\* C29: a search_documents call that has reached its scoring loop while a
\* rebuild is executing can run the loop against the published index
\* without waiting for the rebuild to finish.
C29_SearchNotBlocked ==
    \A c \in Clients :
        (pc[c] = "s_score" /\ Rebuilding # {}) => ENABLED SearchScore(c)

\* C30: _process_query gives each surviving distinct term the weight
\* 1 + (number of query tokens equal to the term) / (number of query
\* tokens), also when a term is a substring of another token.
C30_QueryTermWeight ==
    \A c \in Clients :
        Searched(c) =>
            LET words == FindWords(Lower(ret[c].args.query))
                terms == {words[i] : i \in {j \in 1..Len(words) :
                                               IsIndexTerm(words[j])}}
            IN  /\ DOMAIN ret[c].query_terms = terms
                /\ \A t \in terms :
                      ret[c].query_terms[t] =
                          [num |-> Len(words) + CountWord(words, t),
                           den |-> Len(words)]

(***************************************************************************)
(* Properties of what a rebuild leaves.                                    *)
(***************************************************************************)
\* the surviving tokens of the stored chunk k
StoredTerms(k) == DOMAIN TermFreqs(chunk_files[k].content)

\* the stored documents with a chunk that contains the surviving token t
DocsWith(t) ==
    {d \in DOMAIN metadata_files :
        \E k \in ChunkFilesOf(chunk_files, d) : t \in StoredTerms(k)}

\* the last rebuild has completed, no process_document, delete_document or
\* clear_cache call has run during it or since, and no rebuild is running
RebuiltQuietly == rebuilt_at > 0 /\ Rebuilding = {}

\* C31: after a rebuild has completed with no concurrent mutation,
\* doc_frequencies[t] is the number of distinct stored documents with a
\* chunk that contains the surviving token t, a term in several chunks of
\* one document counting once, and total_documents is the number of stored
\* metadata records.
C31_DocumentFrequencies ==
    RebuiltQuietly =>
        /\ total_documents = Cardinality(DOMAIN metadata_files)
        /\ \A t \in DOMAIN doc_frequencies :
              doc_frequencies[t] = Cardinality(DocsWith(t))
        /\ \A k \in DOMAIN chunk_files : StoredTerms(k) \subseteq DOMAIN doc_frequencies
        /\ \A t \in DOMAIN doc_frequencies : DocsWith(t) # {}

\* a rebuild has completed over a store in which "bbb" is in two chunks of
\* one document, and counted that document once
C31_Witness ==
    /\ RebuiltQuietly
    /\ \E k1, k2 \in DOMAIN chunk_files :
          /\ k1 # k2
          /\ ChunkDocId(k1) = ChunkDocId(k2)
          /\ <<"b", "b", "b">> \in StoredTerms(k1) \cap StoredTerms(k2)
    /\ doc_frequencies[<<"b", "b", "b">>] = 1

\* the term frequencies of every stored chunk that has a surviving token
StoredChunkTerms ==
    [k \in {x \in DOMAIN chunk_files : StoredTerms(x) # {}} |->
        TermFreqs(chunk_files[k].content)]

\* C32: after a rebuild has completed with no concurrent mutation, the
\* inverted index has an entry for term t and chunk k exactly when the
\* stored chunk k contains the surviving token t, and its scores are those
\* computed from the store alone, whatever the index held before: after
\* clear_cache and a rebuild, or two rebuilds, the index is the same.
C32_IndexFunctionOfStore ==
    RebuiltQuietly =>
        /\ \A k \in DOMAIN chunk_files : \A t \in StoredTerms(k) :
              t \in DOMAIN inverted_index /\ k \in DOMAIN inverted_index[t]
        /\ \A t \in DOMAIN inverted_index : \A k \in DOMAIN inverted_index[t] :
              k \in DOMAIN chunk_files /\ t \in StoredTerms(k)
        /\ inverted_index =
              BuildIndex(StoredChunkTerms, Cardinality(DOMAIN metadata_files),
                         DocFrequencies(StoredChunkTerms))

\* clear_cache has returned and a rebuild after it has completed over a
\* store of two chunks
C32_Witness ==
    /\ RebuiltQuietly
    /\ \E c \in Clients : ret[c].op = "clear_cache"
    /\ Cardinality(DOMAIN chunk_files) = 2
    /\ inverted_index # EmptyMap

\* the step in which client c returns from process_document
IngestReturns(c) == pc[c] = "pd_spawn" /\ pc'[c] = "idle"

\* C33: when the write of a chunk record fails during process_document, the
\* call does not return a document id; whenever it returns an id, the
\* number of chunk records stored for the id is the total_chunks of its
\* metadata.
C33_FailurePropagated ==
    [][\A c \in Clients :
          IngestReturns(c) =>
              LET d == ret'[c].val
              IN  /\ loc[c].failed = {}
                  /\ d \in DOMAIN metadata_files'
                  /\ Cardinality(ChunkFilesOf(chunk_files', d)) =
                         metadata_files'[d].total_chunks]_vars

\* the terms of the well-formed chunk files
WellFormedChunkTerms ==
    LET ok == {k \in DOMAIN chunk_files :
                  IsObject(chunk_files[k])
                  /\ TermFreqs(chunk_files[k].content) # EmptyMap}
    IN  [k \in ok |-> TermFreqs(chunk_files[k].content)]

\* a rebuild over a directory with a malformed chunk file completes, sets
\* index_last_refresh, and leaves the entries of the well-formed chunks
RebuildSkipsMalformed ==
    (\A r \in DOMAIN rpc : rpc[r] = "idle") =>
        /\ index_last_refresh = StartTime
        /\ inverted_index =
               BuildIndex(WellFormedChunkTerms,
                          Cardinality(DOMAIN metadata_files),
                          DocFrequencies(WellFormedChunkTerms))

\* list_documents returns the well-formed metadata records
ListingSkipsMalformed ==
    \A c \in Clients :
        ret[c].op = "list_documents" =>
            {ret[c].val[i] : i \in DOMAIN ret[c].val} =
                {metadata_files[d] : d \in {x \in DOMAIN metadata_files :
                                               IsObject(metadata_files[x])}}

\* C34: a malformed or unreadable chunk record never aborts a rebuild, which
\* skips it, completes, updates index_last_refresh and indexes every other
\* chunk; list_documents skips a malformed metadata record and returns all
\* the others.
C34_ScansSkipMalformed == RebuildSkipsMalformed /\ ListingSkipsMalformed

\* the record process_document stores for chunk i of the chunker's result
PersistedChunk(i) ==
    ChunkData(Md5(TextA), i, ck_chunks[i + 1], StartChar(i, ck_size, ck_overlap))

OffsetsAreSourceOffsets ==
    \A i \in 0..(Len(ck_chunks) - 1) :
        LET rec == PersistedChunk(i)
        IN  /\ rec.end_char - rec.start_char = Len(rec.content)
            /\ rec.content = PySlice(ck_text, Min(rec.start_char, Len(ck_text)),
                                     Min(rec.end_char, Len(ck_text)))

\* the fixed-size half: the offsets of the chunks of _chunk_text
FixedOffsetsAreSourceOffsets == ck_mode = "fixed" => OffsetsAreSourceOffsets

\* C35: for every chunk record process_document persists, in fixed mode and
\* in structure-aware mode, end_char - start_char is the length of the
\* content and the content is the original text between start_char and
\* end_char.
C35_OffsetsAreSourceOffsets == ck_mode # "none" => OffsetsAreSourceOffsets

\* C36: for every text, every chunk_size >= 1 and 0 <= overlap < chunk_size,
\* every chunk _smart_chunk_text produces has length <= chunk_size.
C36_SmartChunkBounded ==
    ck_mode = "smart" =>
        \A i \in DOMAIN ck_chunks : Len(ck_chunks[i]) <= ck_size

\* no call and no refresh thread is running
Quiescent ==
    /\ \A c \in Clients : pc[c] = "idle"
    /\ \A r \in DOMAIN rpc : rpc[r] = "idle"

\* C37: whenever no ingest, delete or rebuild is in progress,
\* total_documents is the number of stored metadata records, after any
\* sequence of process_document and delete_document calls, re-ingestion of
\* stored content and deletion of an identifier that is not stored included.
C37_CorpusCount ==
    Quiescent => total_documents = Cardinality(DOMAIN metadata_files)

\* the texts of a list of chunk records
ContentsOf(records) == [i \in DOMAIN records |-> records[i].content]

\* the chunk files of d are those of the chunk list, and no more
StoreHolds(d, chunks) ==
    /\ {k[2] : k \in ChunkFilesOf(chunk_files, d)} = 0..(Len(chunks) - 1)
    /\ \A i \in 0..(Len(chunks) - 1) : chunk_files[<<d, i>>].content = chunks[i + 1]

\* C38: after process_document has returned id d, get_chunks(d) returns the
\* chunk sequence of that ingestion, whatever get_chunks(d) calls were made
\* before or during the ingestion: no stale or empty chunk list is served
\* from chunks_cache.  Stated for the states in which the store holds
\* exactly the chunks of the ingestion.
C38_ReadYourWrites ==
    \A c \in Clients :
        (ret[c].op = "process_document" /\ StoreHolds(ret[c].val, ret[c].chunks))
            => ContentsOf(GetChunksNow(ret[c].val)) = ret[c].chunks

\* C39: also before any rebuild, a search_documents call that starts after
\* delete_document(d) has returned, d not being ingested again, returns no
\* chunk of d, although the index still lists the chunks of d: a candidate
\* whose chunk record is missing from the store is dropped when the results
\* are loaded.
C39_DeletedNeverReturned ==
    /\ \A c \in Clients :
          ret[c].op = "search_documents" =>
              ReturnedDocs(ret[c].val) \cap ret[c].deleted_alone = {}
    /\ \A d \in DeletedAlone : ChunkFilesOf(chunk_files, d) = {}

\* a search that started after the deletion of a document and before any
\* rebuild had followed it has scored a chunk of the document from the
\* index and dropped it on loading
C39_Witness ==
    \E c \in Clients :
        /\ ret[c].op = "search_documents"
        /\ \E k \in ret[c].missing :
              /\ ChunkDocId(k) \in ret[c].deleted_alone \ ret[c].gone
              /\ k \in DOMAIN ret[c].scores

\* the loop run pass by pass returns what ChunkText computes
LoopAgrees ==
    ck_mode = "fixed" => ck_chunks = ChunkText(ck_text, ck_size, ck_overlap)

\* C40: _chunk_text terminates for every text, every chunk_size >= 1 and
\* 0 <= overlap < chunk_size: each pass of the loop strictly increases the
\* start position, which never passes the text length, and the call returns.
C40_ChunkTextTerminates ==
    /\ <>(ck_mode = "fixed")
    /\ [][(ck_mode = "loop" /\ ck_mode' = "loop") =>
             (ck_start < ck_start' /\ ck_start' <= Len(ck_text))]_vars

\* the call has returned after three or more passes with a positive overlap
C40_Witness ==
    /\ ck_mode = "fixed"
    /\ ck_overlap > 0
    /\ Len(ck_chunks) >= 3
    /\ ck_start = Len(ck_text)

====
